---------------------------- MODULE Spec2Model ----------------------------
(***************************************************************************)
(* A model of the HTTP gateway of github-mcp-server (package ghmcp):       *)
(*   - the credential context     (token.go)                               *)
(*   - the transport middleware   (http_server.go, tokenMiddleware)        *)
(*   - the client factory         (server.go, gitHubClientFactory)         *)
(*   - the API hosts              (server.go, parseAPIHost)                *)
(*   - the server lifecycle       (http_server.go, RunHTTPServer)          *)
(*   - the paths                  (http_server.go, normalizePath)          *)
(*   - the toolsets               (server.go, NewMCPServer)                *)
(* Strings are sequences of one-character strings, so that trimming,       *)
(* splitting and case folding are computed and not assumed.                *)
(***************************************************************************)
EXTENDS Naturals, Integers, Sequences, FiniteSets, TLC

VARIABLES
    tkBase,     \* SpecToken: the context the caller started from
    tkCtx,      \* SpecToken: the context the helpers of token.go act on
    tkRaw,      \* SpecToken: the raw tokens given to ContextWithToken so far, oldest first
    tkOut,      \* SpecToken: the last result of TokenFromContext, or NoResult
    reqs,       \* SpecMiddleware: the inbound requests, by arrival order
    factory,    \* the gitHubClientFactory
    lastSet,    \* the argument of the latest setUserAgent call after construction
    calls,      \* the calls of getRESTClient, getRawClient and getGraphQLClient
    setCalls,   \* SpecAgent: the calls of setUserAgent, by start order
    hostIn,     \* SpecHost: the host string given to parseAPIHost
    hostOut,    \* SpecHost: what parseAPIHost returned, or NotParsed
    run,        \* SpecServer: the goroutine of RunHTTPServer
    listener,   \* SpecServer: the goroutine around httpServer.ListenAndServe
    errCh,      \* SpecServer: the buffer of the channel errCh
    signalled,  \* SpecServer: ctx.Done() of signal.NotifyContext is closed
    served,     \* SpecServer: the requests the HTTP server has answered
    norm,       \* SpecPath: a call of normalizePath
    tools,      \* SpecToolsets: the toolsets NewMCPServer enables
    ctxs        \* SpecContexts: the context objects allocated, and the tokens read

tokenVars == <<tkBase, tkCtx, tkRaw, tkOut>>
mwVars == <<reqs>>
factoryVars == <<factory, lastSet, calls>>
agentVars == <<setCalls>>
hostVars == <<hostIn, hostOut>>
srvVars == <<run, listener, errCh, signalled, served>>
fnVars == <<norm, tools, ctxs>>

vars == <<tkBase, tkCtx, tkRaw, tkOut, reqs, factory, lastSet, calls,
          setCalls, hostIn, hostOut, run, listener, errCh, signalled, served,
          norm, tools, ctxs>>

-----------------------------------------------------------------------------
(* Strings (package strings)                                               *)

\* unicode.IsSpace on the characters the model uses
IsSpace(c) == c \in {" ", "\t", "\n", "\r"}

\* strings.TrimLeft(s, whitespace)
RECURSIVE TrimLeft(_)
TrimLeft(s) ==
    IF s = <<>> THEN <<>>
    ELSE IF IsSpace(Head(s)) THEN TrimLeft(Tail(s))
    ELSE s

\* strings.TrimRight(s, whitespace)
RECURSIVE TrimRight(_)
TrimRight(s) ==
    IF s = <<>> THEN <<>>
    ELSE IF IsSpace(s[Len(s)]) THEN TrimRight(SubSeq(s, 1, Len(s) - 1))
    ELSE s

\* strings.TrimSpace
TrimSpace(s) == TrimRight(TrimLeft(s))

UpperLetters ==
    << "A", "B", "C", "D", "E", "F", "G", "H", "I", "J", "K", "L", "M",
       "N", "O", "P", "Q", "R", "S", "T", "U", "V", "W", "X", "Y", "Z" >>
LowerLetters ==
    << "a", "b", "c", "d", "e", "f", "g", "h", "i", "j", "k", "l", "m",
       "n", "o", "p", "q", "r", "s", "t", "u", "v", "w", "x", "y", "z" >>

\* the case folding of one character
Fold(c) ==
    IF \E i \in 1..26 : UpperLetters[i] = c
    THEN LowerLetters[CHOOSE i \in 1..26 : UpperLetters[i] = c]
    ELSE c

\* strings.EqualFold
EqualFold(s, t) ==
    /\ Len(s) = Len(t)
    /\ \A i \in 1..Len(s) : Fold(s[i]) = Fold(t[i])

\* strings.Index(s, " "): the position of the first space, 0 when there is none
RECURSIVE IndexFrom(_, _)
IndexFrom(s, i) ==
    IF i > Len(s) THEN 0
    ELSE IF s[i] = " " THEN i
    ELSE IndexFrom(s, i + 1)

\* strings.SplitN(s, " ", 2)
SplitN(s) ==
    LET i == IndexFrom(s, 1)
    IN  IF i = 0 THEN << s >>
        ELSE << SubSeq(s, 1, i - 1), SubSeq(s, i + 1, Len(s)) >>

-----------------------------------------------------------------------------
(* Credential context (token.go)                                           *)

\* A context.Context: nil, or the chain of its WithValue entries, the
\* innermost (most recent) last.
NilCtx == [nil |-> TRUE, chain |-> <<>>]

\* context.Background()
Background == [nil |-> FALSE, chain |-> <<>>]

\* the unexported key type of token.go, and a key of another package
tokenContextKey == "tokenContextKey"
otherContextKey == "otherKey"

\* context.WithValue
WithValue(ctx, key, val) ==
    [nil |-> FALSE, chain |-> Append(ctx.chain, [key |-> key, val |-> val])]

\* ctx.Value(key): the value of the most recent entry with that key
RECURSIVE Lookup(_, _)
Lookup(chain, key) ==
    IF chain = <<>> THEN [ok |-> FALSE, val |-> <<>>]
    ELSE IF chain[Len(chain)].key = key
         THEN [ok |-> TRUE, val |-> chain[Len(chain)].val]
         ELSE Lookup(SubSeq(chain, 1, Len(chain) - 1), key)

Value(ctx, key) == Lookup(ctx.chain, key)

\* ContextWithToken without its nil guard: context.WithValue refuses a nil
\* parent, so no context comes back
ContextWithTokenNoNilGuard(ctx, token) ==
    IF ctx = NilCtx THEN NilCtx
    ELSE WithValue(ctx, tokenContextKey, TrimSpace(token))

\* ContextWithToken
ContextWithToken(ctx, token) ==
    LET trimmed == TrimSpace(token)
        base    == IF ctx = NilCtx THEN Background ELSE ctx
    IN  WithValue(base, tokenContextKey, trimmed)

\* a (string, error) result
Ok(token) == [token |-> token, err |-> "none"]
Err(msg)  == [token |-> <<>>, err |-> msg]

\* TokenFromContext without the check that the stored value is non-empty
TokenFromContextLenient(ctx) ==
    IF ctx = NilCtx THEN Err("context is nil")
    ELSE LET v == Value(ctx, tokenContextKey)
         IN  IF v.ok THEN Ok(TrimSpace(v.val))
             ELSE Err("missing authentication token")

\* TokenFromContext
TokenFromContext(ctx) ==
    IF ctx = NilCtx THEN Err("context is nil")
    ELSE LET v == Value(ctx, tokenContextKey)
         IN  IF v.ok /\ TrimSpace(v.val) # <<>>
             THEN Ok(TrimSpace(v.val))
             ELSE Err("missing authentication token")

\* the scheme of the credential, and the space that follows it
Bearer == << "B", "e", "a", "r", "e", "r" >>
SP     == << " " >>

-----------------------------------------------------------------------------
(* Client factory (server.go)                                              *)

\* the product part of the default identification, one element of a string
ProductPrefix == << "github-mcp-http/" >>

\* a TokenProviderFunc: nil, TokenFromContext (HTTP mode), the closure over
\* the configured token that NewMCPServer builds, or a function of the caller
NilProvider     == [kind |-> "nil", token |-> <<>>]
ContextProvider == [kind |-> "context", token |-> <<>>]
StaticProvider(cfgToken) == [kind |-> "static", token |-> TrimSpace(cfgToken)]
CustomProvider  == [kind |-> "custom", token |-> <<>>]

\* what a provider of the caller may return: (token, error) pairs
CustomResults ==
    { Ok(<<"c">>), Ok(<<" ", "c">>), Ok(<<>>), Ok(<<" ">>),
      [token |-> <<>>, err |-> "provider failed"],
      [token |-> <<"c">>, err |-> "provider failed"] }

\* f.tokenProvider(ctx): the results the provider can return for ctx
tokenProvider(provider, ctx) ==
    CASE provider.kind = "context" -> { TokenFromContext(ctx) }
      [] provider.kind = "static" ->
            { IF provider.token = <<>> THEN Err("github token not provided")
              ELSE Ok(provider.token) }
      [] provider.kind = "custom" -> CustomResults
      [] OTHER -> { Err("nil provider") }

\* an atomic.Pointer[string]
NilPointer == [nil |-> TRUE, val |-> <<>>]
PointerTo(str) == [nil |-> FALSE, val |-> str]

\* setUserAgent storing its argument as given
setUserAgentVerbatim(f, agent) ==
    [f EXCEPT !.userAgentOverride = PointerTo(agent)]

\* setUserAgent
setUserAgent(f, agent) ==
    LET trimmed      == TrimSpace(agent)
        factoryAgent == IF trimmed = <<>> THEN f.defaultUserAgent ELSE trimmed
    IN  [f EXCEPT !.userAgentOverride = PointerTo(factoryAgent)]

\* setUserAgent up to its store: the string the call is about to publish
\* (agent trimmed, or the default when nothing is left), kept as given
factoryAgentVerbatim(f, agent) == agent

\* setUserAgent up to its store: the local factoryAgent
factoryAgent(f, agent) ==
    LET trimmed == TrimSpace(agent)
    IN  IF trimmed = <<>> THEN f.defaultUserAgent ELSE trimmed

\* a store of the string itself, which a concurrent reader can see half written
StoreTorn(f, str) ==
    [f EXCEPT !.userAgentOverride = PointerTo(SubSeq(str, 1, Len(str) - 1))]

\* f.userAgentOverride.Store(&factoryAgent): the pointer to the finished
\* string is published in one atomic step
Store(f, str) == [f EXCEPT !.userAgentOverride = PointerTo(str)]

\* the client of a session, as its initialize request names it
ClientInfos == { [name |-> <<"c">>, version |-> <<"2">>] }

\* beforeInit: the identification the hook passes to setUserAgent,
\* "github-mcp-http/%s (%s/%s)"
beforeInit(version, info) ==
    ProductPrefix \o version \o <<" ", "(">> \o info.name \o <<"/">>
        \o info.version \o <<")">>

\* currentUserAgent
currentUserAgent(f) ==
    IF ~f.userAgentOverride.nil /\ f.userAgentOverride.val # <<>>
    THEN f.userAgentOverride.val
    ELSE f.defaultUserAgent

\* newGitHubClientFactory
newGitHubClientFactory(version, provider) ==
    LET f == [tokenProvider |-> provider,
              defaultUserAgent |-> ProductPrefix \o version,
              userAgentOverride |-> NilPointer]
    IN  setUserAgent(f, f.defaultUserAgent)

\* resolveToken without the check of the trimmed token
resolveTokenUnchecked(f, provided) ==
    IF f.tokenProvider.kind = "nil"
    THEN Err("github token provider not configured")
    ELSE IF provided.err # "none" THEN Err("failed to resolve GitHub token")
    ELSE Ok(TrimSpace(provided.token))

\* resolveToken, given what f.tokenProvider(ctx) returned
resolveToken(f, provided) ==
    IF f.tokenProvider.kind = "nil"
    THEN Err("github token provider not configured")
    ELSE IF provided.err # "none" THEN Err("failed to resolve GitHub token")
    ELSE IF TrimSpace(provided.token) = <<>> THEN Err("github token not provided")
    ELSE Ok(TrimSpace(provided.token))

\* the three kinds of client
ClientKinds == { "rest", "raw", "graphql" }

\* a nil client, returned with an error
NoClient == [nil |-> TRUE, id |-> 0, kind |-> "", token |-> <<>>, userAgent |-> <<>>]

\* the clients constructed so far
Constructed == { i \in 1..Len(calls) : ~calls[i].client.nil }

\* a factory keeping the first client it built of each kind
cachedClient(kind, token, agent) ==
    LET same == { i \in Constructed : calls[i].client.kind = kind }
    IN  IF same # {}
        THEN calls[CHOOSE i \in same : \A j \in same : calls[i].client.id <= calls[j].client.id].client
        ELSE [nil |-> FALSE, id |-> Cardinality(Constructed) + 1, kind |-> kind,
              token |-> token, userAgent |-> agent]

\* a client whose transport sends no credential
unauthenticatedClient(kind, token, agent) ==
    [nil |-> FALSE, id |-> Cardinality(Constructed) + 1, kind |-> kind,
     token |-> <<>>, userAgent |-> agent]

\* the client a call constructs: a fresh object holding the token and the
\* identification snapshot (gogithub.NewClient(nil).WithAuthToken(token) with
\* UserAgent set, raw.NewClient around it, or githubv4.NewEnterpriseClient
\* over the two transports)
newClient(kind, token, agent) ==
    [nil |-> FALSE, id |-> Cardinality(Constructed) + 1, kind |-> kind,
     token |-> token, userAgent |-> agent]

\* the headers of an outbound request (http.Header): the values of each name
HeaderNames == { "Authorization", "User-Agent" }
NoHeaders == [n \in HeaderNames |-> <<>>]

\* http.Header.Set
HeaderSet(h, name, value) == [h EXCEPT ![name] = << value >>]

\* bearerAuthTransport.RoundTrip: on a clone of the request
bearerAuthTransportRoundTrip(token, headers) ==
    HeaderSet(headers, "Authorization", Bearer \o SP \o token)

\* userAgentTransport.RoundTrip: on a clone of the request
userAgentTransportRoundTrip(agent, headers) ==
    HeaderSet(headers, "User-Agent", agent)

\* the headers a client puts on the wire for a request with the given
\* headers: the GraphQL client through its two transports, the REST client
\* (and the raw client, which sends through its REST client) through
\* go-github, which sets User-Agent when UserAgent is not empty and sends
\* "Bearer "+token
outboundHeaders(client, headers) ==
    IF client.kind = "graphql"
    THEN bearerAuthTransportRoundTrip(client.token,
            userAgentTransportRoundTrip(client.userAgent, headers))
    ELSE LET h == IF client.userAgent # <<>>
                  THEN HeaderSet(headers, "User-Agent", client.userAgent)
                  ELSE headers
         IN  HeaderSet(h, "Authorization", Bearer \o SP \o client.token)

\* req.Clone(req.Context()) sharing the request it was given
CloneAlias(objs, ref) == [objs |-> objs, req |-> ref]

\* req.Clone(req.Context()): a new request object with a copy of the
\* headers; objs are the request objects allocated, by reference
Clone(objs, ref) == [objs |-> Append(objs, objs[ref]), req |-> Len(objs) + 1]

\* userAgentTransport.RoundTrip on the request object ref: the objects
\* after it, and the request it hands to the transport it wraps
roundTripUserAgent(agent, objs, ref) ==
    LET c == Clone(objs, ref)
    IN  [objs |-> [c.objs EXCEPT ![c.req] = userAgentTransportRoundTrip(agent, c.objs[c.req])],
         req |-> c.req]

\* bearerAuthTransport.RoundTrip on the request object ref
roundTripBearerAuth(token, objs, ref) ==
    LET c == Clone(objs, ref)
    IN  [objs |-> [c.objs EXCEPT ![c.req] = bearerAuthTransportRoundTrip(token, c.objs[c.req])],
         req |-> c.req]

\* the http.Client of a GraphQL client sends the caller's request, object
\* 1: through userAgentTransport, then bearerAuthTransport, then
\* http.DefaultTransport, which writes the headers of the request it gets
graphqlClientDo(client, request) ==
    LET outer == roundTripUserAgent(client.userAgent, << request >>, 1)
        inner == roundTripBearerAuth(client.token, outer.objs, outer.req)
    IN  [objs |-> inner.objs, wire |-> inner.objs[inner.req]]

-----------------------------------------------------------------------------
(* URLs (package net/url), on strings of letters, digits, space, tab and   *)
(* the characters . - + : / @ ? #  (no percent escapes, no IP literals in  *)
(* brackets)                                                               *)

\* strings.HasPrefix, strings.HasSuffix
HasPrefix(s, prefix) ==
    Len(s) >= Len(prefix) /\ SubSeq(s, 1, Len(prefix)) = prefix
HasSuffix(s, suffix) ==
    Len(s) >= Len(suffix) /\ SubSeq(s, Len(s) - Len(suffix) + 1, Len(s)) = suffix

\* strings.ToLower
RECURSIVE ToLower(_)
ToLower(s) ==
    IF s = <<>> THEN <<>> ELSE << Fold(Head(s)) >> \o ToLower(Tail(s))

\* strings.IndexByte and strings.LastIndexByte, 0 when c is not in s
IndexByte(s, c) ==
    IF \E i \in 1..Len(s) : s[i] = c
    THEN CHOOSE i \in 1..Len(s) : s[i] = c /\ \A j \in 1..(i - 1) : s[j] # c
    ELSE 0
LastIndexByte(s, c) ==
    IF \E i \in 1..Len(s) : s[i] = c
    THEN CHOOSE i \in 1..Len(s) : s[i] = c /\ \A j \in (i + 1)..Len(s) : s[j] # c
    ELSE 0

\* strings.Cut(s, c)
Cut(s, c) ==
    LET i == IndexByte(s, c)
    IN  IF i = 0 THEN [before |-> s, after |-> <<>>, found |-> FALSE]
        ELSE [before |-> SubSeq(s, 1, i - 1),
              after  |-> SubSeq(s, i + 1, Len(s)),
              found  |-> TRUE]

IsLetter(c) == \E i \in 1..26 : UpperLetters[i] = c \/ LowerLetters[i] = c
IsDigit(c) == c \in {"0", "1", "2", "3", "4", "5", "6", "7", "8", "9"}

\* a *url.URL
NilURL ==
    [nil |-> TRUE, Scheme |-> <<>>, Opaque |-> <<>>, User |-> <<>>,
     Host |-> <<>>, Path |-> <<>>, RawQuery |-> <<>>, Fragment |-> <<>>]
ZeroURL == [NilURL EXCEPT !.nil = FALSE]

\* a (*url.URL, error) result
URLOk(u) == [err |-> "none", url |-> u]
URLErr(msg) == [err |-> msg, url |-> NilURL]

\* url.getScheme
RECURSIVE getSchemeFrom(_, _)
getSchemeFrom(rawURL, i) ==
    IF i > Len(rawURL)
    THEN [scheme |-> <<>>, rest |-> rawURL, err |-> "none"]
    ELSE IF IsLetter(rawURL[i]) THEN getSchemeFrom(rawURL, i + 1)
    ELSE IF IsDigit(rawURL[i]) \/ rawURL[i] \in {"+", "-", "."}
         THEN IF i = 1
              THEN [scheme |-> <<>>, rest |-> rawURL, err |-> "none"]
              ELSE getSchemeFrom(rawURL, i + 1)
    ELSE IF rawURL[i] = ":"
         THEN IF i = 1
              THEN [scheme |-> <<>>, rest |-> <<>>, err |-> "missing protocol scheme"]
              ELSE [scheme |-> SubSeq(rawURL, 1, i - 1),
                    rest   |-> SubSeq(rawURL, i + 1, Len(rawURL)),
                    err    |-> "none"]
    ELSE [scheme |-> <<>>, rest |-> rawURL, err |-> "none"]

getScheme(rawURL) == getSchemeFrom(rawURL, 1)

\* url.validOptionalPort
validOptionalPort(port) ==
    \/ port = <<>>
    \/ /\ port[1] = ":"
       /\ \A i \in 2..Len(port) : IsDigit(port[i])

\* url.parseHost: the port, then the characters a host may hold
parseHost(host) ==
    LET i == LastIndexByte(host, ":")
    IN  IF i # 0 /\ ~validOptionalPort(SubSeq(host, i, Len(host)))
        THEN [err |-> "invalid port after host", host |-> <<>>]
        ELSE IF \E k \in 1..Len(host) : host[k] = " "
        THEN [err |-> "invalid character in host name", host |-> <<>>]
        ELSE [err |-> "none", host |-> host]

\* url.parseAuthority
parseAuthority(authority) ==
    LET i == LastIndexByte(authority, "@")
        h == parseHost(SubSeq(authority, i + 1, Len(authority)))
        userinfo == SubSeq(authority, 1, i - 1)
    IN  IF h.err # "none" THEN [err |-> h.err, user |-> <<>>, host |-> <<>>]
        ELSE IF i = 0 THEN [err |-> "none", user |-> <<>>, host |-> h.host]
        ELSE IF \E k \in 1..Len(userinfo) : userinfo[k] = " "
             THEN [err |-> "invalid userinfo", user |-> <<>>, host |-> <<>>]
        ELSE [err |-> "none", user |-> userinfo, host |-> h.host]

\* url.parse(rawURL, false), after the fragment was cut off
parse(rawURL, frag) ==
    LET sch == getScheme(rawURL)
        q == Cut(sch.rest, "?")
        rest == q.before
        slash == IndexByte(SubSeq(rest, 3, Len(rest)), "/")
        authority == IF slash = 0 THEN SubSeq(rest, 3, Len(rest))
                     ELSE SubSeq(rest, 3, slash + 1)
        path == IF slash = 0 THEN <<>> ELSE SubSeq(rest, slash + 2, Len(rest))
        auth == parseAuthority(authority)
        u == [ZeroURL EXCEPT !.Scheme = ToLower(sch.scheme),
                             !.RawQuery = q.after,
                             !.Fragment = frag]
    IN  IF \E k \in 1..Len(rawURL) : rawURL[k] \in {"\t", "\n", "\r"}
        THEN URLErr("invalid control character in URL")
        ELSE IF sch.err # "none" THEN URLErr(sch.err)
        ELSE IF ~HasPrefix(rest, <<"/">>) /\ sch.scheme # <<>>
             THEN URLOk([u EXCEPT !.Opaque = rest])
        ELSE IF /\ ~HasPrefix(rest, <<"/">>)
                /\ IndexByte(Cut(rest, "/").before, ":") # 0
             THEN URLErr("first path segment in URL cannot contain colon")
        ELSE IF /\ sch.scheme # <<>> \/ ~HasPrefix(rest, <<"/", "/", "/">>)
                /\ HasPrefix(rest, <<"/", "/">>)
             THEN IF auth.err # "none" THEN URLErr(auth.err)
                  ELSE URLOk([u EXCEPT !.User = auth.user,
                                       !.Host = auth.host,
                                       !.Path = path])
        ELSE URLOk([u EXCEPT !.Path = rest])

\* url.Parse
Parse(rawURL) ==
    LET c == Cut(rawURL, "#") IN parse(c.before, c.after)

\* (*URL).Hostname: the host without a valid port
Hostname(u) ==
    LET colon == LastIndexByte(u.Host, ":")
    IN  IF colon # 0 /\ validOptionalPort(SubSeq(u.Host, colon, Len(u.Host)))
        THEN SubSeq(u.Host, 1, colon - 1)
        ELSE u.Host

-----------------------------------------------------------------------------
(* API hosts (server.go)                                                   *)

\* the string literals of the host constructors
HTTPS == << "h", "t", "t", "p", "s" >>
HTTP == << "h", "t", "t", "p" >>
SchemeSep == << ":", "/", "/" >>
GithubCom == << "g", "i", "t", "h", "u", "b", ".", "c", "o", "m" >>
GheCom == << "g", "h", "e", ".", "c", "o", "m" >>
DotcomRESTURL == << "h", "t", "t", "p", "s", ":", "/", "/", "a", "p", "i", ".", "g", "i", "t", "h", "u", "b", ".", "c", "o", "m", "/" >>
DotcomGraphQLURL == << "h", "t", "t", "p", "s", ":", "/", "/", "a", "p", "i", ".", "g", "i", "t", "h", "u", "b", ".", "c", "o", "m", "/", "g", "r", "a", "p", "h", "q", "l" >>
DotcomUploadURL == << "h", "t", "t", "p", "s", ":", "/", "/", "u", "p", "l", "o", "a", "d", "s", ".", "g", "i", "t", "h", "u", "b", ".", "c", "o", "m" >>
DotcomRawURL == << "h", "t", "t", "p", "s", ":", "/", "/", "r", "a", "w", ".", "g", "i", "t", "h", "u", "b", "u", "s", "e", "r", "c", "o", "n", "t", "e", "n", "t", ".", "c", "o", "m", "/" >>
ApiDot == << "a", "p", "i", "." >>
UploadsDot == << "u", "p", "l", "o", "a", "d", "s", "." >>
RawDot == << "r", "a", "w", "." >>
Slash == << "/" >>
GraphQLPath == << "/", "g", "r", "a", "p", "h", "q", "l" >>
GHESRESTPath == << "/", "a", "p", "i", "/", "v", "3", "/" >>
GHESGraphQLPath == << "/", "a", "p", "i", "/", "g", "r", "a", "p", "h", "q", "l" >>
GHESUploadPath == << "/", "a", "p", "i", "/", "u", "p", "l", "o", "a", "d", "s", "/" >>
GHESRawPath == << "/", "r", "a", "w", "/" >>

\* apiHost{}, and an (apiHost, error) result
ZeroAPIHost ==
    [baseRESTURL |-> NilURL, graphqlURL |-> NilURL,
     uploadURL |-> NilURL, rawURL |-> NilURL]
HostOk(h) == [err |-> "none", host |-> h]
HostErr(msg) == [err |-> msg, host |-> ZeroAPIHost]

\* the errors of the four url.Parse calls of each constructor
DotcomErrors ==
    << "failed to parse dotcom REST URL", "failed to parse dotcom GraphQL URL",
       "failed to parse dotcom Upload URL", "failed to parse dotcom Raw URL" >>
GHECErrors ==
    << "failed to parse GHEC REST URL", "failed to parse GHEC GraphQL URL",
       "failed to parse GHEC Upload URL", "failed to parse GHEC Raw URL" >>
GHESErrors ==
    << "failed to parse GHES REST URL", "failed to parse GHES GraphQL URL",
       "failed to parse GHES Upload URL", "failed to parse GHES Raw URL" >>

\* the four url.Parse calls of a constructor, in order, and its return
parseFour(rest, gql, upload, raw, kind) ==
    LET r == Parse(rest)
        g == Parse(gql)
        u == Parse(upload)
        w == Parse(raw)
    IN  IF r.err # "none" THEN HostErr(kind[1])
        ELSE IF g.err # "none" THEN HostErr(kind[2])
        ELSE IF u.err # "none" THEN HostErr(kind[3])
        ELSE IF w.err # "none" THEN HostErr(kind[4])
        ELSE HostOk([baseRESTURL |-> r.url, graphqlURL |-> g.url,
                     uploadURL |-> u.url, rawURL |-> w.url])

\* newDotcomHost
newDotcomHost ==
    parseFour(DotcomRESTURL, DotcomGraphQLURL, DotcomUploadURL, DotcomRawURL,
              DotcomErrors)

\* newGHECHost accepting every scheme
newGHECHostAnyScheme(hostname) ==
    LET p == Parse(hostname)
        h == Hostname(p.url)
    IN  IF p.err # "none" THEN HostErr("failed to parse GHEC URL")
        ELSE parseFour(HTTPS \o SchemeSep \o ApiDot \o h \o Slash,
                       HTTPS \o SchemeSep \o ApiDot \o h \o GraphQLPath,
                       HTTPS \o SchemeSep \o UploadsDot \o h,
                       HTTPS \o SchemeSep \o RawDot \o h \o Slash,
                       GHECErrors)

\* newGHECHost with the upload URL of newDotcomHost left in
newGHECHostDotcomUpload(hostname) ==
    LET p == Parse(hostname)
        h == Hostname(p.url)
    IN  IF p.err # "none" THEN HostErr("failed to parse GHEC URL")
        ELSE IF p.url.Scheme = HTTP THEN HostErr("GHEC URL must be HTTPS")
        ELSE parseFour(HTTPS \o SchemeSep \o ApiDot \o h \o Slash,
                       HTTPS \o SchemeSep \o ApiDot \o h \o GraphQLPath,
                       DotcomUploadURL,
                       HTTPS \o SchemeSep \o RawDot \o h \o Slash,
                       GHECErrors)

\* newGHECHost
newGHECHost(hostname) ==
    LET p == Parse(hostname)
        h == Hostname(p.url)
    IN  IF p.err # "none" THEN HostErr("failed to parse GHEC URL")
        ELSE IF p.url.Scheme = HTTP THEN HostErr("GHEC URL must be HTTPS")
        ELSE parseFour(HTTPS \o SchemeSep \o ApiDot \o h \o Slash,
                       HTTPS \o SchemeSep \o ApiDot \o h \o GraphQLPath,
                       HTTPS \o SchemeSep \o UploadsDot \o h,
                       HTTPS \o SchemeSep \o RawDot \o h \o Slash,
                       GHECErrors)

\* newGHESHost always on https
newGHESHostForcedHTTPS(hostname) ==
    LET p == Parse(hostname)
        h == Hostname(p.url)
    IN  IF p.err # "none" THEN HostErr("failed to parse GHES URL")
        ELSE parseFour(HTTPS \o SchemeSep \o h \o GHESRESTPath,
                       HTTPS \o SchemeSep \o h \o GHESGraphQLPath,
                       HTTPS \o SchemeSep \o h \o GHESUploadPath,
                       HTTPS \o SchemeSep \o h \o GHESRawPath,
                       GHESErrors)

\* newGHESHost building the four URLs from u.Host, port included
newGHESHostKeepingPort(hostname) ==
    LET p == Parse(hostname)
        h == p.url.Host
    IN  IF p.err # "none" THEN HostErr("failed to parse GHES URL")
        ELSE parseFour(p.url.Scheme \o SchemeSep \o h \o GHESRESTPath,
                       p.url.Scheme \o SchemeSep \o h \o GHESGraphQLPath,
                       p.url.Scheme \o SchemeSep \o h \o GHESUploadPath,
                       p.url.Scheme \o SchemeSep \o h \o GHESRawPath,
                       GHESErrors)

\* newGHESHost
newGHESHost(hostname) ==
    LET p == Parse(hostname)
        h == Hostname(p.url)
    IN  IF p.err # "none" THEN HostErr("failed to parse GHES URL")
        ELSE parseFour(p.url.Scheme \o SchemeSep \o h \o GHESRESTPath,
                       p.url.Scheme \o SchemeSep \o h \o GHESGraphQLPath,
                       p.url.Scheme \o SchemeSep \o h \o GHESUploadPath,
                       p.url.Scheme \o SchemeSep \o h \o GHESRawPath,
                       GHESErrors)

\* parseAPIHost without the check of the scheme
parseAPIHostNoSchemeCheck(str) ==
    LET p == Parse(str)
    IN  IF str = <<>> THEN newDotcomHost
        ELSE IF p.err # "none" THEN HostErr("could not parse host as URL")
        ELSE IF HasSuffix(Hostname(p.url), GithubCom) THEN newDotcomHost
        ELSE IF HasSuffix(Hostname(p.url), GheCom) THEN newGHECHost(str)
        ELSE newGHESHost(str)

\* parseAPIHost comparing the whole hostname with "github.com"
parseAPIHostExactDotcom(str) ==
    LET p == Parse(str)
    IN  IF str = <<>> THEN newDotcomHost
        ELSE IF p.err # "none" THEN HostErr("could not parse host as URL")
        ELSE IF p.url.Scheme = <<>>
             THEN HostErr("host must have a scheme (http or https)")
        ELSE IF Hostname(p.url) = GithubCom THEN newDotcomHost
        ELSE IF HasSuffix(Hostname(p.url), GheCom) THEN newGHECHost(str)
        ELSE newGHESHost(str)

\* parseAPIHost
parseAPIHost(str) ==
    LET p == Parse(str)
    IN  IF str = <<>> THEN newDotcomHost
        ELSE IF p.err # "none" THEN HostErr("could not parse host as URL")
        ELSE IF p.url.Scheme = <<>>
             THEN HostErr("host must have a scheme (http or https)")
        ELSE IF HasSuffix(Hostname(p.url), GithubCom) THEN newDotcomHost
        ELSE IF HasSuffix(Hostname(p.url), GheCom) THEN newGHECHost(str)
        ELSE newGHESHost(str)

\* the state of the parts a specification does not exercise
NoFactory == newGitHubClientFactory(<<>>, NilProvider)
NeverSet == [set |-> FALSE, arg |-> <<>>]
FactoryIdle ==
    /\ factory = NoFactory
    /\ lastSet = NeverSet
    /\ calls = <<>>

AgentIdle == setCalls = <<>>

\* cfg.Host with what the claims call its scheme and its hostname; the
\* empty string, and parseAPIHost not called
HostInput(text, scheme, hostname, wellFormed) ==
    [text |-> text, scheme |-> scheme, hostname |-> hostname,
     wellFormed |-> wellFormed]
EmptyHost == HostInput(<<>>, <<>>, <<>>, TRUE)
NotParsed == [err |-> "not called", host |-> ZeroAPIHost]

HostIdle ==
    /\ hostIn = EmptyHost
    /\ hostOut = NotParsed

\* HTTPServerConfig{}: the fields RunHTTPServer's control flow depends on,
\* and whether tsg.EnableToolsets accepts cfg.EnabledToolsets
ZeroConfig ==
    [Host |-> EmptyHost, toolsetsErr |-> FALSE, LogFilePath |-> <<>>,
     EndpointPath |-> <<>>, HealthPath |-> <<>>, ShutdownTimeout |-> 0]

\* the goroutine of RunHTTPServer at its first statement: its locals, the
\* select case it took, the timeout of shutdownCtx, and the error its
\* result wraps
RunStart(cfg) ==
    [pc |-> "start", cfg |-> cfg, endpointPath |-> <<>>, healthPath |-> <<>>,
     shutdownTimeout |-> 0, routes |-> <<>>, logFile |-> "none",
     inShutdown |-> FALSE, shutdowns |-> 0, result |-> "running",
     selected |-> "none", serveErr |-> "unset", deadline |-> 0,
     shutdownErr |-> "unset", cause |-> "none"]

\* RunHTTPServer not called, no goroutine, no channel, no request
NotRunning == [RunStart(ZeroConfig) EXCEPT !.pc = "idle"]
NoListener == [pc |-> "none", serveErr |-> "nil", sent |-> <<>>]
NoRequest ==
    [method |-> "", path |-> <<>>, header |-> [present |-> FALSE, value |-> <<>>]]
NothingServed ==
    [count |-> 0, request |-> NoRequest, handler |-> "", active |-> FALSE,
     resp |-> [status |-> 0, wwwAuthenticate |-> "", contentType |-> "", body |-> <<>>]]

ServerIdle ==
    /\ run = NotRunning
    /\ listener = NoListener
    /\ errCh = <<>>
    /\ signalled = FALSE
    /\ served = NothingServed

\* normalizePath not called; NewMCPServer not at its toolsets
NoNormalize ==
    [pc |-> "idle", path |-> <<>>, fallback |-> <<>>, out |-> <<>>,
     reapplied |-> FALSE, again |-> <<>>]
NoToolsets ==
    [pc |-> "idle", EnabledToolsets |-> <<>>, DynamicToolsets |-> FALSE,
     enabledToolsets |-> <<>>]

\* no context object allocated
NoContexts == [nodes |-> <<>>, reads |-> {}]

FnIdle ==
    /\ norm = NoNormalize
    /\ tools = NoToolsets
    /\ ctxs = NoContexts

-----------------------------------------------------------------------------
(* SpecToken: the helpers of token.go applied to bounded inputs            *)

\* the longest chain of ContextWithToken calls explored
MaxChain == 2

\* raw tokens handed to ContextWithToken
RawTokens ==
    { <<>>, <<" ">>, <<"t">>, <<" ", "t", " ">>, <<"\t", "u", "\n">>,
      <<"t", " ", "u">> }

\* contexts a caller starts from
BaseContexts ==
    { NilCtx, Background, WithValue(Background, otherContextKey, <<"x">>) }

\* TokenFromContext has not been called on the current context
NoResult == [token |-> <<>>, err |-> "not called"]

\* no request has arrived
NoRequests == <<>>

TokenInit ==
    /\ tkBase \in BaseContexts
    /\ tkCtx = tkBase
    /\ tkRaw = <<>>
    /\ tkOut = NoResult
    /\ reqs = NoRequests
    /\ FactoryIdle
    /\ AgentIdle
    /\ HostIdle
    /\ ServerIdle
    /\ FnIdle

\* ctx = ContextWithToken(ctx, raw)
Attach ==
    /\ Len(tkRaw) < MaxChain
    /\ \E raw \in RawTokens :
        /\ tkCtx' = ContextWithToken(tkCtx, raw)
        /\ tkRaw' = Append(tkRaw, raw)
    /\ tkOut' = NoResult
    /\ UNCHANGED <<tkBase, mwVars, factoryVars, agentVars, hostVars, srvVars, fnVars>>

\* a callee derives a context with an unrelated key
AttachOther ==
    /\ tkCtx # NilCtx
    /\ Len(tkCtx.chain) < MaxChain + 1
    /\ tkCtx' = WithValue(tkCtx, otherContextKey, <<"y">>)
    /\ tkOut' = NoResult
    /\ UNCHANGED <<tkBase, tkRaw, mwVars, factoryVars, agentVars, hostVars, srvVars, fnVars>>

\* token, err = TokenFromContext(ctx)
Extract ==
    /\ tkOut = NoResult
    /\ tkOut' = TokenFromContext(tkCtx)
    /\ UNCHANGED <<tkBase, tkCtx, tkRaw, mwVars, factoryVars, agentVars, hostVars, srvVars, fnVars>>

TokenNext == Attach \/ AttachOther \/ Extract

SpecToken == TokenInit /\ [][TokenNext]_vars

\* what the claims say of a string, stated without the code's helpers
NonBlank(s) == \E i \in 1..Len(s) : ~IsSpace(s[i])

\* t is s without its leading and trailing whitespace
IsTrimOf(t, s) ==
    /\ t # <<>>
    /\ ~IsSpace(t[1])
    /\ ~IsSpace(t[Len(t)])
    /\ \E i \in 0..(Len(s) - Len(t)) :
        /\ SubSeq(s, i + 1, i + Len(t)) = t
        /\ \A j \in 1..i : IsSpace(s[j])
        /\ \A j \in (i + Len(t) + 1)..Len(s) : IsSpace(s[j])

\* the positions of the token entries of a chain
TokenEntries(chain) == { i \in 1..Len(chain) : chain[i].key = tokenContextKey }

\* the most recently attached token entry
LastTokenEntry(chain) ==
    chain[CHOOSE i \in TokenEntries(chain) : \A j \in TokenEntries(chain) : j <= i]

\* C5: round trip. Whatever context the caller starts from (nil included),
\* ContextWithToken yields a context, and once a raw token that is non-empty
\* after trimming has been attached, TokenFromContext returns that token
\* trimmed, with no error.
C5_RoundTrip ==
    /\ tkRaw # <<>> => ~tkCtx.nil
    /\ (tkOut # NoResult /\ tkRaw # <<>> /\ NonBlank(tkRaw[Len(tkRaw)]))
        => /\ tkOut.err = "none"
           /\ IsTrimOf(tkOut.token, tkRaw[Len(tkRaw)])

\* a padded token attached to a nil context and read back
C5_Witness ==
    /\ tkBase = NilCtx
    /\ tkRaw = << <<" ", "t", " ">> >>
    /\ tkOut = Ok(<<"t">>)

\* C6: TokenFromContext fails, with an empty token, exactly when the context
\* is nil, holds no token entry, or its most recent token entry is blank; a
\* token it returns is the non-empty trimmed stored value.
C6_ExtractErrors ==
    tkOut # NoResult =>
        LET missing ==
                \/ tkCtx.nil
                \/ TokenEntries(tkCtx.chain) = {}
                \/ ~NonBlank(LastTokenEntry(tkCtx.chain).val)
        IN  /\ (tkOut.err # "none") <=> missing
            /\ tkOut.err # "none" => tkOut.token = <<>>
            /\ tkOut.err = "none" =>
                IsTrimOf(tkOut.token, LastTokenEntry(tkCtx.chain).val)

\* a whitespace-only token was attached over a valid one and the read fails
C6_Witness ==
    /\ tkRaw = << <<"t">>, <<" ">> >>
    /\ tkOut.err = "missing authentication token"

-----------------------------------------------------------------------------
(* SpecContexts: the helpers of token.go on contexts as objects. A context *)
(* is a reference: 0 is nil, and node k of ctxs.nodes holds the parent, the *)
(* key and the value of the valueCtx allocated k-th; node 1 is             *)
(* context.Background(). Callers keep the references they were given.      *)

\* the most contexts derived, and the most results kept, in one run
MaxContexts == 3
MaxReads == 2

\* the raw tokens attached
ContextTokens == { <<"t">>, <<" ">>, <<" ", "u", " ">> }

\* the nil context, and context.Background()
NilRef == 0
BackgroundRef == 1
backgroundCtx == [parent |-> 0, key |-> "", val |-> <<>>]

\* ctx.Value(key) of valueCtx: the value of the nearest node with that key,
\* the receiver first, then its parents
RECURSIVE ValueRef(_, _, _)
ValueRef(nodes, ref, key) ==
    IF ref = NilRef \/ nodes[ref].parent = 0 THEN [ok |-> FALSE, val |-> <<>>]
    ELSE IF nodes[ref].key = key THEN [ok |-> TRUE, val |-> nodes[ref].val]
    ELSE ValueRef(nodes, nodes[ref].parent, key)

\* context.WithValue: a new node over its parent
WithValueRef(nodes, parent, key, val) ==
    [nodes |-> Append(nodes, [parent |-> parent, key |-> key, val |-> val]),
     ctx |-> Len(nodes) + 1]

\* the node of a context that holds its token, 0 when none does
RECURSIVE tokenNode(_, _)
tokenNode(nodes, ref) ==
    IF ref = NilRef \/ nodes[ref].parent = 0 THEN 0
    ELSE IF nodes[ref].key = tokenContextKey THEN ref
    ELSE tokenNode(nodes, nodes[ref].parent)

\* ContextWithToken storing the token in the node that holds one already,
\* and returning the context it was given
ContextWithTokenInPlace(nodes, ref, token) ==
    LET trimmed == TrimSpace(token)
        base    == IF ref = NilRef THEN BackgroundRef ELSE ref
        held    == tokenNode(nodes, base)
    IN  IF held # 0
        THEN [nodes |-> [nodes EXCEPT ![held].val = trimmed], ctx |-> base]
        ELSE WithValueRef(nodes, base, tokenContextKey, trimmed)

\* ContextWithToken: the nodes after the call, and the context returned
ContextWithTokenRef(nodes, ref, token) ==
    LET trimmed == TrimSpace(token)
        base    == IF ref = NilRef THEN BackgroundRef ELSE ref
    IN  WithValueRef(nodes, base, tokenContextKey, trimmed)

\* TokenFromContext
TokenFromContextRef(nodes, ref) ==
    IF ref = NilRef THEN Err("context is nil")
    ELSE LET v == ValueRef(nodes, ref, tokenContextKey)
         IN  IF v.ok /\ TrimSpace(v.val) # <<>>
             THEN Ok(TrimSpace(v.val))
             ELSE Err("missing authentication token")

ContextsInit ==
    /\ ctxs = [nodes |-> << backgroundCtx >>, reads |-> {}]
    /\ norm = NoNormalize
    /\ tools = NoToolsets
    /\ tkBase = NilCtx
    /\ tkCtx = NilCtx
    /\ tkRaw = <<>>
    /\ tkOut = NoResult
    /\ reqs = NoRequests
    /\ FactoryIdle
    /\ AgentIdle
    /\ HostIdle
    /\ ServerIdle

\* ctx2 := ContextWithToken(ctx1, raw), for a context ctx1 a caller holds
AttachTo(ref) ==
    /\ Len(ctxs.nodes) < MaxContexts + 1
    /\ \E raw \in ContextTokens :
          ctxs' = [ctxs EXCEPT !.nodes = ContextWithTokenRef(ctxs.nodes, ref, raw).nodes]
    /\ UNCHANGED <<norm, tools, tokenVars, mwVars, factoryVars, agentVars, hostVars, srvVars>>

\* a callee derives a context with a key of its own
DeriveFrom(ref) ==
    /\ ref # NilRef
    /\ Len(ctxs.nodes) < MaxContexts + 1
    /\ ctxs' = [ctxs EXCEPT !.nodes = WithValueRef(ctxs.nodes, ref, otherContextKey, <<"y">>).nodes]
    /\ UNCHANGED <<norm, tools, tokenVars, mwVars, factoryVars, agentVars, hostVars, srvVars>>

\* token, err := TokenFromContext(ctx), the result kept by the caller
ExtractFrom(ref) ==
    /\ Cardinality(ctxs.reads) < MaxReads
    /\ \A r \in ctxs.reads : r.ctx # ref
    /\ ctxs' = [ctxs EXCEPT !.reads = @ \cup
                    { [ctx |-> ref, result |-> TokenFromContextRef(ctxs.nodes, ref)] }]
    /\ UNCHANGED <<norm, tools, tokenVars, mwVars, factoryVars, agentVars, hostVars, srvVars>>

ContextsNext ==
    \E ref \in 0..Len(ctxs.nodes) :
        AttachTo(ref) \/ DeriveFrom(ref) \/ ExtractFrom(ref)

SpecContexts == ContextsInit /\ [][ContextsNext]_vars

\* what the claim says of a context, stated without the lookup: the
\* contexts a context was derived from, itself included
RECURSIVE Ancestry(_, _)
Ancestry(nodes, ref) ==
    IF ref = NilRef THEN {} ELSE { ref } \cup Ancestry(nodes, nodes[ref].parent)

\* the attachments of a token a context was derived through, and the most
\* recent of them: contexts are numbered in the order of their creation
Attachments(nodes, ref) ==
    { q \in Ancestry(nodes, ref) : nodes[q].key = tokenContextKey }
LatestAttachment(nodes, ref) ==
    CHOOSE q \in Attachments(nodes, ref) :
        \A o \in Attachments(nodes, ref) : o <= q

\* C33: ContextWithToken leaves the context it is given as it was: a
\* result TokenFromContext gave for a context is the result it gives after
\* any later attachment to that context or to another. For a context
\* derived through several attachments the result is the token attached
\* most recently, and the error when that one is blank, even when an
\* earlier attachment is a valid token.
C33_Frame ==
    \A r \in ctxs.reads :
        /\ TokenFromContextRef(ctxs.nodes, r.ctx) = r.result
        /\ r.result =
              IF r.ctx = NilRef THEN Err("context is nil")
              ELSE IF Attachments(ctxs.nodes, r.ctx) = {}
                   THEN Err("missing authentication token")
              ELSE IF ~NonBlank(ctxs.nodes[LatestAttachment(ctxs.nodes, r.ctx)].val)
                   THEN Err("missing authentication token")
              ELSE Ok(ctxs.nodes[LatestAttachment(ctxs.nodes, r.ctx)].val)

\* "t" was read from a context, a blank token was attached to that context
\* afterwards, and the read of the new context gave the error
C33_Witness ==
    /\ Len(ctxs.nodes) >= 3
    /\ ctxs.nodes[2] = [parent |-> 1, key |-> tokenContextKey, val |-> <<"t">>]
    /\ ctxs.nodes[3] = [parent |-> 2, key |-> tokenContextKey, val |-> <<>>]
    /\ ctxs.reads = { [ctx |-> 2, result |-> Ok(<<"t">>)],
                      [ctx |-> 3, result |-> Err("missing authentication token")] }

-----------------------------------------------------------------------------
(* Transport middleware (http_server.go)                                   *)

\* the most requests explored in one run
MaxRequests == 2

\* http.StatusUnauthorized
StatusUnauthorized == 401

Basic  == << "B", "a", "s", "i", "c" >>
TAB    == << "\t" >>

\* an Authorization header of a request: absent, or present with a value
NoHeader == [present |-> FALSE, value |-> <<>>]
Header(v) == [present |-> TRUE, value |-> v]

\* r.Header.Get("Authorization"): "" when the header is absent
HeaderGet(h) == IF h.present THEN h.value ELSE <<>>

\* the headers requests arrive with
AuthHeaders ==
    { NoHeader,
      Header(<<>>),
      Header(SP \o TAB),
      Header(Bearer \o SP \o <<"t">>),
      Header(<<"b", "E", "A", "R", "E", "R">> \o SP \o <<"u">>),
      Header(SP \o Bearer \o SP \o <<"t">> \o SP),
      Header(Bearer \o SP \o SP \o <<"u">>),
      Header(Bearer \o SP \o <<"t">> \o SP \o <<"u">>),
      Header(Bearer),
      Header(Bearer \o SP),
      Header(Bearer \o SP \o SP \o SP \o SP),
      Header(Bearer \o TAB \o <<"t">>),
      Header(Bearer \o SP \o TAB \o <<"t">>),
      Header(Bearer \o <<"t">>),
      Header(Bearer \o <<"x">> \o SP \o <<"t">>),
      Header(Basic \o SP \o <<"t">>),
      Header(SP \o <<"t">>) }

\* the statuses the wrapped handler answers with
HandlerStatuses == {200, 400}

\* a response: who wrote it, and what
NoResponse ==
    [status |-> 0, wwwAuthenticate |-> "", contentType |-> "", body |-> <<>>]

unauthorizedNoChallenge(message) ==
    [status |-> StatusUnauthorized,
     wwwAuthenticate |-> "",
     contentType |-> "text/plain; charset=utf-8",
     body |-> << message, "\n" >>]

\* unauthorized: the challenge header, then http.Error(w, message, 401)
unauthorized(message) ==
    [status |-> StatusUnauthorized,
     wwwAuthenticate |-> "Bearer realm=\"github-mcp-server\"",
     contentType |-> "text/plain; charset=utf-8",
     body |-> << message, "\n" >>]

\* the decision of the middleware: a rejection message, or the token
Reject(message) == [reject |-> TRUE, message |-> message, token |-> <<>>]
Accept(token)   == [reject |-> FALSE, message |-> "", token |-> token]

\* tokenMiddleware without the comparison of the scheme
tokenMiddlewareAnyScheme(h) ==
    LET authHeader == TrimSpace(HeaderGet(h))
        parts      == SplitN(authHeader)
    IN  IF authHeader = <<>> THEN Reject("missing Authorization header")
        ELSE IF Len(parts) # 2 THEN Reject("invalid Authorization header")
        ELSE IF TrimSpace(parts[2]) = <<>> THEN Reject("missing bearer token")
        ELSE Accept(TrimSpace(parts[2]))

\* tokenMiddleware keeping the token of the first accepted request in a
\* variable shared by all requests
tokenMiddlewareShared(h) ==
    LET authHeader == TrimSpace(HeaderGet(h))
        parts      == SplitN(authHeader)
        earlier    == { i \in 1..Len(reqs) : reqs[i].pc = "done" /\ reqs[i].calls > 0 }
    IN  IF authHeader = <<>> THEN Reject("missing Authorization header")
        ELSE IF Len(parts) # 2 \/ ~EqualFold(parts[1], Bearer)
             THEN Reject("invalid Authorization header")
        ELSE IF TrimSpace(parts[2]) = <<>> THEN Reject("missing bearer token")
        ELSE IF earlier # {}
             THEN Accept(reqs[CHOOSE i \in earlier : \A j \in earlier : i <= j].saw.token)
        ELSE Accept(TrimSpace(parts[2]))

\* tokenMiddleware splitting the header value as it arrived, untrimmed
tokenMiddlewareUntrimmed(h) ==
    LET authHeader == HeaderGet(h)
        parts      == SplitN(authHeader)
    IN  IF authHeader = <<>> THEN Reject("missing Authorization header")
        ELSE IF Len(parts) # 2 \/ ~EqualFold(parts[1], Bearer)
             THEN Reject("invalid Authorization header")
        ELSE IF TrimSpace(parts[2]) = <<>> THEN Reject("missing bearer token")
        ELSE Accept(TrimSpace(parts[2]))

\* tokenMiddleware, up to the call of the wrapped handler
tokenMiddleware(h) ==
    LET authHeader == TrimSpace(HeaderGet(h))
        parts      == SplitN(authHeader)
    IN  IF authHeader = <<>> THEN Reject("missing Authorization header")
        ELSE IF Len(parts) # 2 \/ ~EqualFold(parts[1], Bearer)
             THEN Reject("invalid Authorization header")
        ELSE IF TrimSpace(parts[2]) = <<>> THEN Reject("missing bearer token")
        ELSE Accept(TrimSpace(parts[2]))

\* the request handed on keeps its own context
forwardedContextOriginal(ctx, token) == ctx

\* ctx := ContextWithToken(r.Context(), token); r.WithContext(ctx)
forwardedContext(ctx, token) == ContextWithToken(ctx, token)

\* the context net/http gives a request: server entries, no token entry
RequestContexts ==
    { WithValue(Background, otherContextKey, <<"x">>) }

TokenIdle ==
    /\ tkBase = NilCtx
    /\ tkCtx = NilCtx
    /\ tkRaw = <<>>
    /\ tkOut = NoResult

MiddlewareInit ==
    /\ reqs = NoRequests
    /\ TokenIdle
    /\ FactoryIdle
    /\ AgentIdle
    /\ HostIdle
    /\ ServerIdle
    /\ FnIdle

\* the server accepts a request and starts its handler goroutine
Receive ==
    /\ Len(reqs) < MaxRequests
    /\ \E h \in AuthHeaders, c \in RequestContexts :
        reqs' = Append(reqs,
                    [pc |-> "middleware", header |-> h, ctx |-> c,
                     resp |-> NoResponse, calls |-> 0, saw |-> NoResult,
                     trace |-> <<>>])
    /\ UNCHANGED <<tokenVars, factoryVars, agentVars, hostVars, srvVars, fnVars>>

\* tokenMiddleware's handler, until it answers 401 or has built the context
MiddlewareServeHTTP(i) ==
    /\ reqs[i].pc = "middleware"
    /\ reqs' =
        LET d == tokenMiddleware(reqs[i].header)
        IN  IF d.reject
            THEN [reqs EXCEPT ![i].pc = "done",
                              ![i].resp = unauthorized(d.message),
                              ![i].trace = Append(@, "unauthorized")]
            ELSE [reqs EXCEPT ![i].pc = "forward",
                              ![i].ctx = forwardedContext(@, d.token),
                              ![i].trace = Append(@, "attach")]
    /\ UNCHANGED <<tokenVars, factoryVars, agentVars, hostVars, srvVars, fnVars>>

\* next.ServeHTTP(w, r.WithContext(ctx)): the wrapped handler runs and reads
\* the credential of its request
NextServeHTTP(i) ==
    /\ reqs[i].pc = "forward"
    /\ \E st \in HandlerStatuses :
        reqs' = [reqs EXCEPT ![i].pc = "done",
                             ![i].calls = @ + 1,
                             ![i].saw = TokenFromContext(reqs[i].ctx),
                             ![i].resp = [NoResponse EXCEPT !.status = st],
                             ![i].trace = Append(@, "handler")]
    /\ UNCHANGED <<tokenVars, factoryVars, agentVars, hostVars, srvVars, fnVars>>

MiddlewareNext ==
    \/ Receive
    \/ \E i \in 1..Len(reqs) : MiddlewareServeHTTP(i)
    \/ \E i \in 1..Len(reqs) : NextServeHTTP(i)

SpecMiddleware == MiddlewareInit /\ [][MiddlewareNext]_vars

\* what the claims say of an Authorization header, stated on the positions
\* of its characters: the header value without its surrounding whitespace is
\* v[a..b], its first space is at k, v[a..k-1] is "Bearer" in any case, and
\* a character that is not whitespace follows k
BearerShape(v, a, b, k) ==
    /\ a <= k /\ k <= b
    /\ \A j \in 1..(a - 1) : IsSpace(v[j])
    /\ \A j \in (b + 1)..Len(v) : IsSpace(v[j])
    /\ ~IsSpace(v[a]) /\ ~IsSpace(v[b])
    /\ v[k] = " "
    /\ \A j \in a..(k - 1) : v[j] # " "
    /\ k - a = Len(Bearer)
    /\ \A j \in 1..Len(Bearer) : Fold(v[a + j - 1]) = Fold(Bearer[j])
    /\ \E m \in (k + 1)..b : ~IsSpace(v[m])

WellFormedAuth(h) ==
    /\ h.present
    /\ \E a, b, k \in 1..Len(h.value) : BearerShape(h.value, a, b, k)

\* the value of a well-formed header, without its surrounding whitespace
BearerValue(h) ==
    LET v == h.value
        p == CHOOSE x \in (1..Len(v)) \X (1..Len(v)) \X (1..Len(v)) :
                BearerShape(v, x[1], x[2], x[3])
        m == CHOOSE y \in (p[3] + 1)..p[2] :
                ~IsSpace(v[y]) /\ \A j \in (p[3] + 1)..(y - 1) : IsSpace(v[j])
    IN  SubSeq(v, m, p[2])

\* the well-formed headers among those requests arrive with, and the token
\* each carries
WellFormedHeaders == { h \in AuthHeaders : WellFormedAuth(h) }
ExpectedToken == [h \in WellFormedHeaders |-> BearerValue(h)]

Rejected(r) == r.pc = "done" /\ r.calls = 0

\* C1: a request whose Authorization header is absent, blank, or not
\* "Bearer <value>" is answered 401 and the wrapped handler is never invoked
\* for it.
C1_MalformedRejected ==
    \A i \in 1..Len(reqs) :
        reqs[i].header \notin WellFormedHeaders =>
            /\ reqs[i].calls = 0
            /\ reqs[i].pc # "forward"
            /\ reqs[i].pc = "done" => reqs[i].resp.status = StatusUnauthorized

\* a request with another scheme has been answered
C1_Witness ==
    \E i \in 1..Len(reqs) :
        /\ reqs[i].header = Header(Basic \o SP \o <<"t">>)
        /\ reqs[i].pc = "done"
        /\ reqs[i].resp.status = StatusUnauthorized

\* C2: for a well-formed header the wrapped handler is invoked exactly once,
\* after the credential was attached to the context, and TokenFromContext on
\* the context it receives returns the trimmed value with no error.
C2_WellFormedForwarded ==
    \A i \in 1..Len(reqs) :
        /\ reqs[i].calls > 0 => reqs[i].trace = << "attach", "handler" >>
        /\ (reqs[i].header \in WellFormedHeaders /\ reqs[i].pc = "done") =>
              /\ reqs[i].calls = 1
              /\ reqs[i].saw = Ok(ExpectedToken[reqs[i].header])

\* a padded header with two spaces after the scheme reached the handler
C2_Witness ==
    \E i \in 1..Len(reqs) :
        /\ reqs[i].header = Header(Bearer \o SP \o SP \o <<"u">>)
        /\ reqs[i].pc = "done"
        /\ reqs[i].calls = 1
        /\ reqs[i].saw = Ok(<<"u">>)

\* C3: every 401 the middleware writes carries the challenge header
\* WWW-Authenticate: Bearer realm="github-mcp-server" and a plaintext body.
C3_Challenge ==
    \A i \in 1..Len(reqs) :
        Rejected(reqs[i]) =>
            /\ reqs[i].resp.status = StatusUnauthorized
            /\ reqs[i].resp.wwwAuthenticate = "Bearer realm=\"github-mcp-server\""
            /\ reqs[i].resp.contentType = "text/plain; charset=utf-8"
            /\ reqs[i].resp.body # <<>>

\* two requests were rejected for different reasons
C3_Witness ==
    \E i, j \in 1..Len(reqs) :
        /\ Rejected(reqs[i]) /\ Rejected(reqs[j])
        /\ reqs[i].header = NoHeader
        /\ reqs[j].header = Header(Bearer \o SP \o SP \o SP \o SP)
        /\ reqs[i].resp.body # reqs[j].resp.body

\* C4: no state is kept between requests. Two finished requests with the
\* same header have the same outcome (both rejected, or both forwarded with
\* the same token), whatever was served before or beside them; a forwarded
\* request carries the token of its own header; and every
\* request that arrived is finished or at a step of its own handler, none
\* answered or stopped on behalf of another.
C4_Stateless ==
    /\ \A i, j \in 1..Len(reqs) :
          (/\ reqs[i].pc = "done" /\ reqs[j].pc = "done"
           /\ reqs[i].header = reqs[j].header)
          => /\ Rejected(reqs[i]) <=> Rejected(reqs[j])
             /\ reqs[i].saw = reqs[j].saw
             /\ Rejected(reqs[i]) => reqs[i].resp = reqs[j].resp
    /\ \A i \in 1..Len(reqs) :
          (reqs[i].pc = "done" /\ ~Rejected(reqs[i]))
          => /\ reqs[i].header \in WellFormedHeaders
             /\ reqs[i].saw.token = ExpectedToken[reqs[i].header]
    /\ \A i \in 1..Len(reqs) :
          \/ reqs[i].pc = "done"
          \/ reqs[i].pc = "middleware" /\ reqs[i].resp = NoResponse
          \/ reqs[i].pc = "forward" /\ reqs[i].resp = NoResponse

\* a rejected request was followed by an accepted one that carries its own
\* token, after another token had been accepted
C4_Witness ==
    /\ Len(reqs) >= 2
    /\ reqs[1].pc = "done" /\ reqs[2].pc = "done"
    /\ \/ /\ Rejected(reqs[1])
          /\ reqs[2].saw = Ok(<<"t">>)
       \/ /\ reqs[1].saw = Ok(<<"u">>)
          /\ reqs[2].saw = Ok(<<"t">>)

\* the header is absent, or holds nothing but whitespace
BlankAuth(h) ==
    ~h.present \/ \A j \in 1..Len(h.value) : IsSpace(h.value[j])

\* the message of a rejection, as the client reads it
RejectionMessage(r) == r.resp.body[1]

\* C36: every rejection carries one of two messages, "missing Authorization
\* header" for an absent or blank header and "invalid Authorization header"
\* for any other; the message "missing bearer token" is never sent.
C36_TwoMessages ==
    \A i \in 1..Len(reqs) :
        Rejected(reqs[i]) =>
            /\ RejectionMessage(reqs[i]) # "missing bearer token"
            /\ RejectionMessage(reqs[i]) =
                  IF BlankAuth(reqs[i].header)
                  THEN "missing Authorization header"
                  ELSE "invalid Authorization header"

\* "Bearer" followed by spaces only was rejected as invalid
C36_Witness ==
    \E i \in 1..Len(reqs) :
        /\ reqs[i].header = Header(Bearer \o SP \o SP \o SP \o SP)
        /\ Rejected(reqs[i])
        /\ RejectionMessage(reqs[i]) = "invalid Authorization header"

-----------------------------------------------------------------------------
(* SpecFactory: the client factory in HTTP mode, under concurrent calls    *)
(* SpecResolve: the client factory with every kind of token provider       *)

\* the most client constructions explored in one run of SpecFactory
MaxCalls == 2

\* the most client constructions explored in one run of SpecResolve
MaxResolveCalls == 1

\* cfg.Version
Versions == { <<"1">>, <<"1", " ">> }

\* the tokens of the requests in flight, and the contexts the middleware
\* hands on for them
RequestTokens == { <<"t">>, <<"u">> }
FactoryContexts ==
    { forwardedContext(c, tok) : c \in RequestContexts, tok \in RequestTokens }

\* the contexts a caller may pass to a factory method
AnyContexts ==
    { NilCtx, Background,
      ContextWithToken(Background, <<" ">>),
      ContextWithToken(Background, <<" ", "t">>) }

\* the arguments of setUserAgent
AgentArgs == { <<" ">>, <<" ", "c", " ">>, <<"d">> }

\* the token providers a factory is built with
Providers ==
    { NilProvider, ContextProvider, CustomProvider,
      StaticProvider(<<>>), StaticProvider(<<" ", "s", " ">>) }

\* a call of getRESTClient, getRawClient or getGraphQLClient that has started
NewCall(kind, ctx) ==
    [kind |-> kind, ctx |-> ctx, pc |-> "resolve", provided |-> NoResult,
     token |-> <<>>, err |-> <<>>, client |-> NoClient, seenSet |-> NeverSet,
     sent |-> FALSE, sentSet |-> NeverSet, request |-> NoHeaders,
     objs |-> <<>>, wire |-> NoHeaders]

\* the error a method returns when resolveToken failed: getRawClient wraps
\* the error of getRESTClient
ReturnedError(kind, msg) ==
    IF kind = "raw" THEN << "failed to get GitHub client", msg >> ELSE << msg >>

\* RunHTTPServer: NewMCPServer with TokenProvider: TokenFromContext
FactoryInit ==
    /\ \E v \in Versions : factory = newGitHubClientFactory(v, ContextProvider)
    /\ lastSet = NeverSet
    /\ calls = <<>>
    /\ reqs = NoRequests
    /\ TokenIdle
    /\ AgentIdle
    /\ HostIdle
    /\ ServerIdle
    /\ FnIdle

\* a factory built with any provider
ResolveInit ==
    /\ \E p \in Providers : factory = newGitHubClientFactory(<<"1">>, p)
    /\ lastSet = NeverSet
    /\ calls = <<>>
    /\ reqs = NoRequests
    /\ TokenIdle
    /\ AgentIdle
    /\ HostIdle
    /\ ServerIdle
    /\ FnIdle

\* a tool handler calls a factory method with the context of its request
StartCall ==
    /\ Len(calls) < MaxCalls
    /\ \E kind \in ClientKinds, ctx \in FactoryContexts :
        calls' = Append(calls, NewCall(kind, ctx))
    /\ UNCHANGED <<factory, lastSet, tokenVars, mwVars, agentVars, hostVars, srvVars, fnVars>>

\* a caller calls a factory method with any context
StartAnyCall ==
    /\ Len(calls) < MaxResolveCalls
    /\ \E kind \in ClientKinds, ctx \in AnyContexts :
        calls' = Append(calls, NewCall(kind, ctx))
    /\ UNCHANGED <<factory, lastSet, tokenVars, mwVars, agentVars, hostVars, srvVars, fnVars>>

\* token, err := f.resolveToken(ctx); if err != nil { return nil, err }
ResolveToken(i) ==
    /\ calls[i].pc = "resolve"
    /\ \E provided \in tokenProvider(factory.tokenProvider, calls[i].ctx) :
        calls' =
            LET r == resolveToken(factory, provided)
            IN  IF r.err # "none"
                THEN [calls EXCEPT ![i].pc = "done",
                                   ![i].provided = provided,
                                   ![i].err = ReturnedError(calls[i].kind, r.err)]
                ELSE [calls EXCEPT ![i].pc = "build",
                                   ![i].provided = provided,
                                   ![i].token = r.token]
    /\ UNCHANGED <<factory, lastSet, tokenVars, mwVars, agentVars, hostVars, srvVars, fnVars>>

\* the rest of the method: the client is built around the token, with the
\* identification f.currentUserAgent() returns at this moment
BuildClient(i) ==
    /\ calls[i].pc = "build"
    /\ calls' = [calls EXCEPT
                    ![i].pc = "done",
                    ![i].client = newClient(calls[i].kind, calls[i].token,
                                            currentUserAgent(factory)),
                    ![i].seenSet = lastSet]
    /\ UNCHANGED <<factory, lastSet, tokenVars, mwVars, agentVars, hostVars, srvVars, fnVars>>

\* f.setUserAgent(agent)
SetUserAgent ==
    /\ \E agent \in AgentArgs :
        /\ factory' = setUserAgent(factory, agent)
        /\ lastSet' = [set |-> TRUE, arg |-> agent]
    /\ UNCHANGED <<calls, tokenVars, mwVars, agentVars, hostVars, srvVars, fnVars>>

FactoryNext ==
    \/ StartCall
    \/ \E i \in 1..Len(calls) : ResolveToken(i)
    \/ \E i \in 1..Len(calls) : BuildClient(i)
    \/ SetUserAgent

ResolveNext ==
    \/ StartAnyCall
    \/ \E i \in 1..Len(calls) : ResolveToken(i)
    \/ \E i \in 1..Len(calls) : BuildClient(i)

SpecFactory == FactoryInit /\ [][FactoryNext]_vars

SpecResolve == ResolveInit /\ [][ResolveNext]_vars

\* the calls that returned, and those that returned a client
Returned == { i \in 1..Len(calls) : calls[i].pc = "done" }

\* the token the context of a call carries, as the middleware attached it
OwnToken(i) == LastTokenEntry(calls[i].ctx.chain).val

\* the value of a header a call's client sends, on a request without headers
Sent(i, name) == outboundHeaders(calls[i].client, NoHeaders)[name]

\* v is the one header value "Bearer " followed by the trimmed token raw
IsBearerOf(v, raw) ==
    /\ Len(v) = 1
    /\ Len(v[1]) > Len(Bearer) + 1
    /\ SubSeq(v[1], 1, Len(Bearer)) = Bearer
    /\ v[1][Len(Bearer) + 1] = " "
    /\ IsTrimOf(SubSeq(v[1], Len(Bearer) + 2, Len(v[1])), raw)

\* C7: for a request context carrying token T, the REST client, the raw
\* client and the GraphQL client each send Authorization: Bearer T, so the
\* clients built from one context send the same credential.
C7_SameBearer ==
    /\ \A i \in Returned :
          /\ ~calls[i].client.nil
          /\ calls[i].client.kind = calls[i].kind
          /\ IsBearerOf(Sent(i, "Authorization"), OwnToken(i))
    /\ \A i, j \in Returned :
          calls[i].ctx = calls[j].ctx
          => Sent(i, "Authorization") = Sent(j, "Authorization")

\* a raw client (over its REST client) and a GraphQL client were built from
\* the same context and send the same credential
C7_Witness ==
    /\ Returned = {1, 2}
    /\ calls[1].kind = "raw" /\ calls[2].kind = "graphql"
    /\ calls[1].ctx = calls[2].ctx
    /\ Sent(1, "Authorization") = << Bearer \o SP \o <<"t">> >>
    /\ Sent(2, "Authorization") = << Bearer \o SP \o <<"t">> >>

\* C8: under concurrent calls for requests with different tokens, a call
\* holds and returns the token of its own request only, and every call
\* returns a client object of its own.
C8_OwnToken ==
    /\ \A i \in 1..Len(calls) :
          /\ calls[i].pc = "build" => calls[i].token = OwnToken(i)
          /\ i \in Returned =>
                /\ ~calls[i].client.nil
                /\ calls[i].client.token = OwnToken(i)
    /\ \A i, j \in Returned :
          i # j => calls[i].client.id # calls[j].client.id

\* a call returned while an earlier one for another token was in flight
C8_Witness ==
    /\ Len(calls) = 2
    /\ calls[1].pc = "build" /\ calls[1].token = <<"t">>
    /\ calls[2].pc = "done" /\ calls[2].client.token = <<"u">>
    /\ calls[1].kind = calls[2].kind

\* C9: when the provider is nil, returns an error, or returns a token that
\* is empty after trimming, each of the three methods returns an error and a
\* nil client; a client and an error are never returned together.
C9_ResolveFailure ==
    \A i \in 1..Len(calls) :
        LET failed ==
                \/ factory.tokenProvider.kind = "nil"
                \/ calls[i].provided.err # "none"
                \/ ~NonBlank(calls[i].provided.token)
        IN  /\ calls[i].pc = "build" => ~failed
            /\ i \in Returned =>
                /\ failed => (calls[i].err # <<>> /\ calls[i].client.nil)
                /\ calls[i].err # <<>> => calls[i].client.nil
                /\ ~failed => (calls[i].err = <<>> /\ ~calls[i].client.nil)

\* getRawClient failed on a provider that returned a blank token, no error
C9_Witness ==
    /\ factory.tokenProvider.kind = "custom"
    /\ Len(calls) >= 1
    /\ calls[1].kind = "raw"
    /\ calls[1].pc = "done"
    /\ calls[1].provided = Ok(<<" ">>)
    /\ calls[1].client.nil
    /\ calls[1].err = << "failed to get GitHub client", "github token not provided" >>

\* C10 as stated: a client built before any setUserAgent call reports the
\* default "github-mcp-http/<version>", and one built after reports the
\* value given to the most recent call.
C10_AsStated ==
    \A i \in Returned :
        ~calls[i].client.nil =>
            Sent(i, "User-Agent") =
                << IF calls[i].seenSet.set THEN calls[i].seenSet.arg
                   ELSE factory.defaultUserAgent >>

\* C10, amended: a client built before any setUserAgent call reports the
\* default identification without surrounding whitespace; one built after
\* reports the argument of the most recent call without surrounding
\* whitespace, or the default identification when that argument is blank.
C10_LastWriterWins ==
    \A i \in Returned :
        ~calls[i].client.nil =>
            LET ua  == Sent(i, "User-Agent")
                arg == calls[i].seenSet.arg
            IN  /\ Len(ua) = 1
                /\ ~calls[i].seenSet.set => IsTrimOf(ua[1], factory.defaultUserAgent)
                /\ (calls[i].seenSet.set /\ NonBlank(arg)) => IsTrimOf(ua[1], arg)
                /\ (calls[i].seenSet.set /\ ~NonBlank(arg)) => ua[1] = factory.defaultUserAgent

\* a client built before any call and one built after two calls, of
\* different kinds, report the default and the latest argument
C10_Witness ==
    /\ Returned = {1, 2}
    /\ calls[1].kind = "rest" /\ calls[2].kind = "graphql"
    /\ ~calls[1].seenSet.set
    /\ Sent(1, "User-Agent") = << ProductPrefix \o <<"1">> >>
    /\ calls[2].seenSet = [set |-> TRUE, arg |-> <<" ", "c", " ">>]
    /\ Sent(2, "User-Agent") = << <<"c">> >>

-----------------------------------------------------------------------------
(* SpecHTTPMode: the client factory as RunHTTPServer configures it, called *)
(* with contexts of every kind                                             *)

\* the most client constructions explored in one run of SpecHTTPMode
MaxHTTPCalls == 2

\* a token in the environment of the process, or none
EnvTokens == { <<>>, <<"e">> }

\* the token fields of the MCPServerConfig of a server that takes the
\* token of its environment and no provider
runHTTPServerConfigStatic(env) ==
    [Token |-> env, TokenProvider |-> NilProvider]

\* the token fields of the MCPServerConfig RunHTTPServer builds: no Token,
\* and TokenFromContext as the provider, whatever the environment holds
runHTTPServerConfig(env) ==
    [Token |-> <<>>, TokenProvider |-> ContextProvider]

\* NewMCPServer: the provider of the factory, cfg.TokenProvider or, when
\* that is nil, the provider of the trimmed cfg.Token
mcpTokenProvider(cfg) ==
    IF cfg.TokenProvider = NilProvider THEN StaticProvider(cfg.Token)
    ELSE cfg.TokenProvider

\* the contexts a factory method is called with: those of requests that
\* passed the middleware, and contexts without a token or with a blank one
HTTPModeContexts == FactoryContexts \cup AnyContexts

HTTPModeInit ==
    /\ \E v \in Versions, env \in EnvTokens :
          factory = newGitHubClientFactory(v, mcpTokenProvider(runHTTPServerConfig(env)))
    /\ lastSet = NeverSet
    /\ calls = <<>>
    /\ reqs = NoRequests
    /\ TokenIdle
    /\ AgentIdle
    /\ HostIdle
    /\ ServerIdle
    /\ FnIdle

\* a factory method is called with the context of a request, or another
StartHTTPCall ==
    /\ Len(calls) < MaxHTTPCalls
    /\ \E kind \in ClientKinds, ctx \in HTTPModeContexts :
        calls' = Append(calls, NewCall(kind, ctx))
    /\ UNCHANGED <<factory, lastSet, tokenVars, mwVars, agentVars, hostVars, srvVars, fnVars>>

HTTPModeNext ==
    \/ StartHTTPCall
    \/ \E i \in 1..Len(calls) : ResolveToken(i)
    \/ \E i \in 1..Len(calls) : BuildClient(i)

SpecHTTPMode == HTTPModeInit /\ [][HTTPModeNext]_vars

\* the context carries a token: it is not nil, a token was attached to it,
\* and the one attached last is not blank
CarriesToken(ctx) ==
    /\ ctx # NilCtx
    /\ TokenEntries(ctx.chain) # {}
    /\ NonBlank(LastTokenEntry(ctx.chain).val)

\* C34: in HTTP mode there is no fallback to a credential of the server: a
\* call whose context carries no token returns an error and no client, for
\* each of the three kinds, and every client built holds the token of the
\* context of its own call.
C34_NoFallback ==
    \A i \in 1..Len(calls) :
        /\ ~CarriesToken(calls[i].ctx) =>
              /\ calls[i].pc # "build"
              /\ calls[i].client.nil
              /\ calls[i].pc = "done" => calls[i].err # <<>>
        /\ ~calls[i].client.nil =>
              /\ CarriesToken(calls[i].ctx)
              /\ IsTrimOf(calls[i].client.token, LastTokenEntry(calls[i].ctx.chain).val)

\* a call with a context that carries no token failed, and a call for a
\* request with a token got a client with that token
C34_Witness ==
    /\ Len(calls) = 2
    /\ calls[1].ctx = Background
    /\ calls[1].pc = "done" /\ calls[1].client.nil /\ calls[1].err # <<>>
    /\ calls[2].pc = "done" /\ calls[2].client.token = <<"u">>

-----------------------------------------------------------------------------
(* SpecSend: clients built by the factory send requests while the          *)
(* identification of the factory changes                                   *)

\* the most client constructions explored in one run of SpecSend
MaxSendCalls == 1

\* the headers of the requests handed to the transports of a GraphQL
\* client: none, one value of each name, several values of each name
CallerRequests ==
    { NoHeaders,
      [n \in HeaderNames |-> IF n = "Authorization" THEN << <<"B", "a", "s", "i", "c", " ", "x">> >>
                             ELSE << <<"a">> >>],
      [n \in HeaderNames |-> IF n = "Authorization"
                             THEN << Bearer \o SP \o <<"o">>, Bearer \o SP \o <<"p">> >>
                             ELSE << <<"a">>, <<"b">> >>] }

\* the context of the request whose handler builds a client
SendContexts ==
    { forwardedContext(c, <<"t">>) : c \in RequestContexts }

SendInit ==
    /\ \E v \in Versions : factory = newGitHubClientFactory(v, ContextProvider)
    /\ lastSet = NeverSet
    /\ calls = <<>>
    /\ reqs = NoRequests
    /\ TokenIdle
    /\ AgentIdle
    /\ HostIdle
    /\ ServerIdle
    /\ FnIdle

\* a tool handler calls a factory method with the context of its request
StartSendCall ==
    /\ Len(calls) < MaxSendCalls
    /\ \E kind \in ClientKinds, ctx \in SendContexts :
        calls' = Append(calls, NewCall(kind, ctx))
    /\ UNCHANGED <<factory, lastSet, tokenVars, mwVars, agentVars, hostVars, srvVars, fnVars>>

\* a client sending with the identification the factory holds at that
\* moment
DoLive(i) ==
    /\ calls[i].pc = "done"
    /\ ~calls[i].client.nil
    /\ \E request \in CallerRequests :
        LET live == [calls[i].client EXCEPT !.userAgent = currentUserAgent(factory)]
            d == IF calls[i].kind = "graphql"
                 THEN graphqlClientDo(live, request)
                 ELSE [objs |-> <<>>, wire |-> outboundHeaders(live, NoHeaders)]
        IN  calls' = [calls EXCEPT
                        ![i].sent = TRUE,
                        ![i].sentSet = lastSet,
                        ![i].request = IF calls[i].kind = "graphql" THEN request ELSE NoHeaders,
                        ![i].objs = d.objs,
                        ![i].wire = d.wire]
    /\ UNCHANGED <<factory, lastSet, tokenVars, mwVars, agentVars, hostVars, srvVars, fnVars>>

\* the client a call returned sends a request: a GraphQL client the request
\* its caller hands to its transports, a REST or raw client the request
\* go-github builds
Do(i) ==
    /\ calls[i].pc = "done"
    /\ ~calls[i].client.nil
    /\ \E request \in CallerRequests :
        LET d == IF calls[i].kind = "graphql"
                 THEN graphqlClientDo(calls[i].client, request)
                 ELSE [objs |-> <<>>, wire |-> outboundHeaders(calls[i].client, NoHeaders)]
        IN  calls' = [calls EXCEPT
                        ![i].sent = TRUE,
                        ![i].sentSet = lastSet,
                        ![i].request = IF calls[i].kind = "graphql" THEN request ELSE NoHeaders,
                        ![i].objs = d.objs,
                        ![i].wire = d.wire]
    /\ UNCHANGED <<factory, lastSet, tokenVars, mwVars, agentVars, hostVars, srvVars, fnVars>>

SendNext ==
    \/ StartSendCall
    \/ \E i \in 1..Len(calls) : ResolveToken(i)
    \/ \E i \in 1..Len(calls) : BuildClient(i)
    \/ SetUserAgent
    \/ \E i \in 1..Len(calls) : Do(i)

SpecSend == SendInit /\ [][SendNext]_vars

\* C31: the identification of a client is the one the factory held when
\* the client was built: whatever setUserAgent calls come between the
\* construction and a request, a REST, raw or GraphQL client sends the
\* identification of its construction as its one User-Agent value.
C31_Snapshot ==
    \A i \in 1..Len(calls) :
        calls[i].sent =>
            LET ua  == calls[i].wire["User-Agent"]
                arg == calls[i].seenSet.arg
            IN  /\ Len(ua) = 1
                /\ ~calls[i].seenSet.set => IsTrimOf(ua[1], factory.defaultUserAgent)
                /\ (calls[i].seenSet.set /\ NonBlank(arg)) => IsTrimOf(ua[1], arg)
                /\ (calls[i].seenSet.set /\ ~NonBlank(arg)) =>
                      ua[1] = factory.defaultUserAgent

\* a REST client built before any setUserAgent call sent the default
\* identification after setUserAgent("d")
C31_Witness ==
    /\ Len(calls) = 1
    /\ calls[1].kind = "rest"
    /\ calls[1].sent
    /\ ~calls[1].seenSet.set
    /\ calls[1].sentSet = [set |-> TRUE, arg |-> <<"d">>]
    /\ factory.defaultUserAgent = ProductPrefix \o <<"1">>
    /\ calls[1].wire["User-Agent"] = << ProductPrefix \o <<"1">> >>

\* C32: a request sent through the transports of a GraphQL client carries
\* one Authorization value, "Bearer " and the token of the client, and one
\* User-Agent value, the identification of the client, whatever values of
\* these names the request came with; and the request object of the caller
\* is as the caller made it.
C32_OneOfEach ==
    \A i \in 1..Len(calls) :
        (calls[i].sent /\ calls[i].kind = "graphql") =>
            /\ IsBearerOf(calls[i].wire["Authorization"], OwnToken(i))
            /\ calls[i].wire["User-Agent"] = << calls[i].client.userAgent >>
            /\ calls[i].objs[1] = calls[i].request
            /\ Len(calls[i].objs) = 3

\* a request that came with two values of each name went out with one of
\* each, and still holds its two
C32_Witness ==
    /\ Len(calls) = 1
    /\ calls[1].kind = "graphql"
    /\ calls[1].sent
    /\ calls[1].request["User-Agent"] = << <<"a">>, <<"b">> >>
    /\ calls[1].objs[1]["User-Agent"] = << <<"a">>, <<"b">> >>
    /\ Len(calls[1].objs[1]["Authorization"]) = 2
    /\ calls[1].wire["Authorization"] = << Bearer \o SP \o <<"t">> >>
    /\ Len(calls[1].wire["User-Agent"]) = 1

-----------------------------------------------------------------------------
(* SpecAgent: setUserAgent racing with client constructions                *)

\* the most setUserAgent calls explored in one run
MaxSetCalls == 2

\* the most client constructions explored in one run of SpecAgent
MaxAgentCalls == 1

\* cfg.Version, which the default identification ends with
cfgVersion(f) == Tail(f.defaultUserAgent)

\* the arguments of direct setUserAgent calls
DirectArgs == { <<" ">>, <<" ", "c", " ">> }

\* the context of the request whose handler builds a client
AgentContexts ==
    { forwardedContext(c, <<"t">>) : c \in RequestContexts }

\* a call of setUserAgent that has computed its string and not stored it
NewSetCall(agent) ==
    [pc |-> "store", arg |-> agent, agent |-> factoryAgent(factory, agent)]

AgentInit ==
    /\ \E v \in Versions : factory = newGitHubClientFactory(v, ContextProvider)
    /\ lastSet = NeverSet
    /\ calls = <<>>
    /\ setCalls = <<>>
    /\ reqs = NoRequests
    /\ TokenIdle
    /\ HostIdle
    /\ ServerIdle
    /\ FnIdle

\* a tool handler calls a factory method with the context of its request
StartAgentCall ==
    /\ Len(calls) < MaxAgentCalls
    /\ \E kind \in ClientKinds, ctx \in AgentContexts :
        calls' = Append(calls, NewCall(kind, ctx))
    /\ UNCHANGED <<factory, lastSet, tokenVars, mwVars, agentVars, hostVars, srvVars, fnVars>>

\* a session's initialize request runs the hook, which calls setUserAgent
BeforeInit ==
    /\ Len(setCalls) < MaxSetCalls
    /\ \E info \in ClientInfos :
        setCalls' = Append(setCalls,
                        NewSetCall(beforeInit(cfgVersion(factory), info)))
    /\ UNCHANGED <<factoryVars, tokenVars, mwVars, hostVars, srvVars, fnVars>>

\* f.setUserAgent(agent), up to its store
BeginSetUserAgent ==
    /\ Len(setCalls) < MaxSetCalls
    /\ \E agent \in DirectArgs :
        setCalls' = Append(setCalls, NewSetCall(agent))
    /\ UNCHANGED <<factoryVars, tokenVars, mwVars, hostVars, srvVars, fnVars>>

\* f.userAgentOverride.Store(&factoryAgent), and the call returns
StoreUserAgent(j) ==
    /\ setCalls[j].pc = "store"
    /\ factory' = Store(factory, setCalls[j].agent)
    /\ lastSet' = [set |-> TRUE, arg |-> setCalls[j].arg]
    /\ setCalls' = [setCalls EXCEPT ![j].pc = "done"]
    /\ UNCHANGED <<calls, tokenVars, mwVars, hostVars, srvVars, fnVars>>

AgentNext ==
    \/ StartAgentCall
    \/ \E i \in 1..Len(calls) : ResolveToken(i)
    \/ \E i \in 1..Len(calls) : BuildClient(i)
    \/ BeforeInit
    \/ BeginSetUserAgent
    \/ \E j \in 1..Len(setCalls) : StoreUserAgent(j)

SpecAgent == AgentInit /\ [][AgentNext]_vars

\* ua is the identification a setUserAgent call with this argument leaves:
\* the argument without surrounding whitespace, or the default when the
\* argument is blank
IsIdentificationOf(ua, arg, default) ==
    IF NonBlank(arg) THEN IsTrimOf(ua, arg) ELSE ua = default

\* ua is the identification in force after the latest finished store
InForce(ua, latest) ==
    IF latest.set
    THEN IsIdentificationOf(ua, latest.arg, factory.defaultUserAgent)
    ELSE IsTrimOf(ua, factory.defaultUserAgent)

\* C11: under every interleaving of setUserAgent calls and client
\* constructions, a constructed client holds a whole identification: the one
\* in force when it read (that of the latest store finished before its read,
\* untouched by the calls still in flight), never an empty or half-written
\* string.
C11_AtomicObservation ==
    \A i \in Returned :
        LET ua == calls[i].client.userAgent
        IN  /\ ~calls[i].client.nil
            /\ ua # <<>>
            /\ InForce(ua, calls[i].seenSet)
            /\ \/ IsTrimOf(ua, factory.defaultUserAgent)
               \/ ua = factory.defaultUserAgent
               \/ \E j \in 1..Len(setCalls) : IsTrimOf(ua, setCalls[j].arg)

\* a client was built while an earlier setUserAgent call was still about to
\* store: it holds the whole value of the later call that had stored
C11_Witness ==
    /\ Len(setCalls) = 2
    /\ setCalls[1].pc = "store"
    /\ setCalls[1].arg # setCalls[2].arg
    /\ setCalls[2].pc = "done" /\ setCalls[2].arg = <<" ", "c", " ">>
    /\ Returned = {1}
    /\ calls[1].seenSet = [set |-> TRUE, arg |-> <<" ", "c", " ">>]
    /\ calls[1].client.userAgent = <<"c">>

\* C12: setUserAgent stores its argument trimmed, or the default when the
\* trimmed argument is empty; after any sequence of calls currentUserAgent
\* returns a non-empty string, the default or the trimmed argument of the
\* last call.
C12_TrimOrDefault ==
    /\ \A j \in 1..Len(setCalls) :
          IsIdentificationOf(setCalls[j].agent, setCalls[j].arg,
                             factory.defaultUserAgent)
    /\ ~factory.userAgentOverride.nil
    /\ InForce(factory.userAgentOverride.val, lastSet)
    /\ currentUserAgent(factory) # <<>>
    /\ InForce(currentUserAgent(factory), lastSet)

\* after a call with an argument and a call with a blank one, the default
\* is back in force
C12_Witness ==
    /\ Len(setCalls) = 2
    /\ setCalls[1].pc = "done" /\ setCalls[1].arg = <<" ", "c", " ">>
    /\ setCalls[2].pc = "done" /\ setCalls[2].arg = <<" ">>
    /\ lastSet = [set |-> TRUE, arg |-> <<" ">>]
    /\ currentUserAgent(factory) = factory.defaultUserAgent

-----------------------------------------------------------------------------
(* SpecHost: parseAPIHost applied to bounded inputs                        *)

\* the parts the inputs are composed of
InputSchemes == { HTTPS, HTTP, << "H", "T", "T", "P" >>, << "f", "t", "p" >> }
InputHosts ==
    { GithubCom, ApiDot \o GithubCom, << "x" >> \o GithubCom, GithubCom \o << ".", "x" >>,
      << "o", "c", "t", "o", "." >> \o GheCom, GheCom, << "g", "h", "e", "s", ".", "i", "o" >>, << "G", "i", "t", "H", "u", "b", ".", "c", "o", "m" >> }
InputDecorations ==
    { [user |-> <<>>, tail |-> <<>>],
      [user |-> <<>>, tail |-> << ":", "8", "0", "8", "0" >>],
      [user |-> <<>>, tail |-> << "/", "p" >>],
      [user |-> << "u", "@" >>, tail |-> <<>>],
      [user |-> <<>>, tail |-> << "?", "q", "/", "r" >>],
      [user |-> <<>>, tail |-> << "#", "f" >>] }

\* scheme://[user@]host[:port][/path][?query][#fragment]
Compose(scheme, host, d) ==
    HostInput(scheme \o SchemeSep \o d.user \o host \o d.tail, scheme, host, TRUE)

\* inputs that are not of that form: no scheme, a scheme without "//",
\* another host behind user info, and strings that are no URL
IrregularInputs ==
    { EmptyHost,
      HostInput(GithubCom, <<>>, <<>>, TRUE),
      HostInput(<< "o", "c", "t", "o", "." >> \o GheCom \o << "/", "p" >>, <<>>, <<>>, TRUE),
      HostInput(<< "/", "/" >> \o GithubCom, <<>>, GithubCom, TRUE),
      HostInput(<< "/", "/" >> \o << "g", "h", "e", "s", ".", "i", "o" >>, <<>>, << "g", "h", "e", "s", ".", "i", "o" >>, TRUE),
      HostInput(GithubCom \o << ":", "8", "0", "8", "0" >>, GithubCom, <<>>, TRUE),
      HostInput(HTTPS \o << ":" >> \o GithubCom, HTTPS, <<>>, TRUE),
      HostInput(HTTPS \o SchemeSep, HTTPS, <<>>, TRUE),
      HostInput(HTTPS \o SchemeSep \o GithubCom \o << "@" >> \o << "g", "h", "e", "s", ".", "i", "o" >>, HTTPS, << "g", "h", "e", "s", ".", "i", "o" >>, TRUE),
      HostInput(HTTPS \o SchemeSep \o << "g", "h", "e", "s", ".", "i", "o" >> \o << "/", "p", "@" >> \o GithubCom, HTTPS, << "g", "h", "e", "s", ".", "i", "o" >>, TRUE),
      HostInput(SchemeSep \o GithubCom, <<>>, GithubCom, FALSE),
      HostInput(<< " " >> \o HTTPS \o SchemeSep \o GithubCom, <<>>, GithubCom, FALSE),
      HostInput(<< "1" >> \o HTTP \o SchemeSep \o GithubCom, <<>>, GithubCom, FALSE),
      HostInput(HTTPS \o SchemeSep \o << "g", "i", "t", " ", "h", "u", "b", ".", "c", "o", "m" >>, HTTPS, << "g", "i", "t", " ", "h", "u", "b", ".", "c", "o", "m" >>, FALSE),
      HostInput(HTTPS \o SchemeSep \o GithubCom \o << ":", "x" >>, HTTPS, GithubCom, FALSE),
      HostInput(HTTPS \o SchemeSep \o << "u", " ", "u", "@" >> \o GheCom, HTTPS, GheCom, FALSE),
      HostInput(HTTPS \o SchemeSep \o GithubCom \o << "\t" >>, HTTPS, GithubCom, FALSE) }

HostInputs ==
    { Compose(sc, h, d) : sc \in InputSchemes, h \in InputHosts,
                          d \in InputDecorations }
    \cup IrregularInputs

HostInit ==
    /\ hostIn \in HostInputs
    /\ hostOut = NotParsed
    /\ TokenIdle
    /\ reqs = NoRequests
    /\ FactoryIdle
    /\ AgentIdle
    /\ ServerIdle
    /\ FnIdle

\* apiHost, err := parseAPIHost(cfg.Host)
ParseAPIHost ==
    /\ hostOut = NotParsed
    /\ hostOut' = parseAPIHost(hostIn.text)
    /\ UNCHANGED <<hostIn, tokenVars, mwVars, factoryVars, agentVars, srvVars, fnVars>>

HostNext == ParseAPIHost

SpecHost == HostInit /\ [][HostNext]_vars

\* what the claims say of an input and of an endpoint set, stated without
\* the parser: the input begins with a scheme and a colon
ExplicitScheme(text) ==
    \E k \in 2..Len(text) :
        /\ text[k] = ":"
        /\ IsLetter(text[1])
        /\ \A j \in 2..(k - 1) :
              IsLetter(text[j]) \/ IsDigit(text[j]) \/ text[j] \in {"+", "-", "."}

\* h ends in suffix
EndsIn(h, suffix) ==
    \E k \in 0..Len(h) : SubSeq(h, k + 1, Len(h)) = suffix

\* two schemes are the same, case aside
SameScheme(a, b) ==
    /\ Len(a) = Len(b)
    /\ \A i \in 1..Len(a) : Fold(a[i]) = Fold(b[i])

\* the URL scheme://host/path with nothing else
PlainURL(scheme, host, path) ==
    [nil |-> FALSE, Scheme |-> scheme, Opaque |-> <<>>, User |-> <<>>,
     Host |-> host, Path |-> path, RawQuery |-> <<>>, Fragment |-> <<>>]

\* the endpoint set of each kind of deployment
PublicEndpoints ==
    [baseRESTURL |-> PlainURL(<< "h", "t", "t", "p", "s" >>, << "a", "p", "i", ".", "g", "i", "t", "h", "u", "b", ".", "c", "o", "m" >>, << "/" >>),
     graphqlURL  |-> PlainURL(<< "h", "t", "t", "p", "s" >>, << "a", "p", "i", ".", "g", "i", "t", "h", "u", "b", ".", "c", "o", "m" >>, << "/", "g", "r", "a", "p", "h", "q", "l" >>),
     uploadURL   |-> PlainURL(<< "h", "t", "t", "p", "s" >>, << "u", "p", "l", "o", "a", "d", "s", ".", "g", "i", "t", "h", "u", "b", ".", "c", "o", "m" >>, <<>>),
     rawURL      |-> PlainURL(<< "h", "t", "t", "p", "s" >>, << "r", "a", "w", ".", "g", "i", "t", "h", "u", "b", "u", "s", "e", "r", "c", "o", "n", "t", "e", "n", "t", ".", "c", "o", "m" >>, << "/" >>)]
DataResidencyEndpoints(h) ==
    [baseRESTURL |-> PlainURL(<< "h", "t", "t", "p", "s" >>, << "a", "p", "i", "." >> \o h, << "/" >>),
     graphqlURL  |-> PlainURL(<< "h", "t", "t", "p", "s" >>, << "a", "p", "i", "." >> \o h, << "/", "g", "r", "a", "p", "h", "q", "l" >>),
     uploadURL   |-> PlainURL(<< "h", "t", "t", "p", "s" >>, << "u", "p", "l", "o", "a", "d", "s", "." >> \o h, <<>>),
     rawURL      |-> PlainURL(<< "h", "t", "t", "p", "s" >>, << "r", "a", "w", "." >> \o h, << "/" >>)]
SelfManagedEndpoints(scheme, h) ==
    [baseRESTURL |-> PlainURL(scheme, h, << "/", "a", "p", "i", "/", "v", "3", "/" >>),
     graphqlURL  |-> PlainURL(scheme, h, << "/", "a", "p", "i", "/", "g", "r", "a", "p", "h", "q", "l" >>),
     uploadURL   |-> PlainURL(scheme, h, << "/", "a", "p", "i", "/", "u", "p", "l", "o", "a", "d", "s", "/" >>),
     rawURL      |-> PlainURL(scheme, h, << "/", "r", "a", "w", "/" >>)]

Parsed == hostOut # NotParsed
Succeeded == hostOut.err = "none"
Failed == hostOut.err # "none" /\ hostOut.host = ZeroAPIHost

\* C13: the empty input, and every URL with a scheme whose hostname ends in
\* "github.com", yields the fixed public endpoint set, whatever its scheme,
\* port, path, query or user info.
C13_PublicEndpoints ==
    (/\ Parsed
     /\ \/ hostIn.text = <<>>
        \/ /\ hostIn.wellFormed
           /\ hostIn.scheme # <<>>
           /\ EndsIn(hostIn.hostname, GithubCom))
    => hostOut = HostOk(PublicEndpoints)

\* an http input on a subdomain, with a path, resolved to the public set
C13_Witness ==
    /\ hostIn = Compose(HTTP, ApiDot \o GithubCom, [user |-> <<>>, tail |-> << "/", "p" >>])
    /\ hostOut.err = "none"
    /\ hostOut.host.uploadURL.Host = << "u", "p", "l", "o", "a", "d", "s", ".", "g", "i", "t", "h", "u", "b", ".", "c", "o", "m" >>

C15_DataResidency ==
    (Parsed /\ hostIn.wellFormed /\ EndsIn(hostIn.hostname, GheCom)
            /\ ~EndsIn(hostIn.hostname, GithubCom))
    => /\ SameScheme(hostIn.scheme, << "h", "t", "t", "p" >>) => Failed
       /\ SameScheme(hostIn.scheme, << "h", "t", "t", "p", "s" >>) =>
            /\ Succeeded
            /\ hostOut.host.baseRESTURL.Host = << "a", "p", "i", "." >> \o hostIn.hostname
            /\ hostOut.host.graphqlURL.Host = << "a", "p", "i", "." >> \o hostIn.hostname
            /\ hostOut.host.uploadURL.Host = << "u", "p", "l", "o", "a", "d", "s", "." >> \o hostIn.hostname
            /\ hostOut.host.rawURL.Host = << "r", "a", "w", "." >> \o hostIn.hostname

\* an https tenant with a port resolved to its three subdomains
C15_Witness ==
    /\ hostIn = Compose(HTTPS, << "o", "c", "t", "o", "." >> \o GheCom, [user |-> <<>>, tail |-> << ":", "8", "0", "8", "0" >>])
    /\ hostOut.err = "none"
    /\ hostOut.host.rawURL.Host = << "r", "a", "w", ".", "o", "c", "t", "o", ".", "g", "h", "e", ".", "c", "o", "m" >>

\* C16 as stated: for a hostname ending in "ghe.com", parseAPIHost succeeds
\* only for scheme https and returns an error for every other scheme.
C16_AsStated ==
    (Parsed /\ hostIn.wellFormed /\ EndsIn(hostIn.hostname, GheCom))
    => /\ Succeeded => SameScheme(hostIn.scheme, << "h", "t", "t", "p", "s" >>)
       /\ ~SameScheme(hostIn.scheme, << "h", "t", "t", "p", "s" >>) => Failed

\* C17: for an input scheme://host whose hostname ends in neither
\* "github.com" nor "ghe.com", the four URLs have the input's scheme and
\* hostname and the paths /api/v3/, /api/graphql, /api/uploads/ and /raw/.
C17_SelfManaged ==
    (/\ Parsed
     /\ hostIn.wellFormed
     /\ hostIn.scheme # <<>>
     /\ hostIn.text = hostIn.scheme \o SchemeSep \o hostIn.hostname
     /\ ~EndsIn(hostIn.hostname, GithubCom)
     /\ ~EndsIn(hostIn.hostname, GheCom))
    => /\ Succeeded
       /\ \A n \in DOMAIN hostOut.host :
            /\ SameScheme(hostOut.host[n].Scheme, hostIn.scheme)
            /\ hostOut.host[n].Host = hostIn.hostname
       /\ hostOut.host.baseRESTURL.Path = << "/", "a", "p", "i", "/", "v", "3", "/" >>
       /\ hostOut.host.graphqlURL.Path = << "/", "a", "p", "i", "/", "g", "r", "a", "p", "h", "q", "l" >>
       /\ hostOut.host.uploadURL.Path = << "/", "a", "p", "i", "/", "u", "p", "l", "o", "a", "d", "s", "/" >>
       /\ hostOut.host.rawURL.Path = << "/", "r", "a", "w", "/" >>

\* an http server resolved to http URLs on its own host
C17_Witness ==
    /\ hostIn = Compose(HTTP, << "g", "h", "e", "s", ".", "i", "o" >>, [user |-> <<>>, tail |-> <<>>])
    /\ hostOut.err = "none"
    /\ hostOut.host.baseRESTURL = PlainURL(<< "h", "t", "t", "p" >>, << "g", "h", "e", "s", ".", "i", "o" >>, << "/", "a", "p", "i", "/", "v", "3", "/" >>)

\* C18: in every endpoint set returned without error the four URLs have one
\* scheme and belong to one kind of deployment: the set is the public one,
\* or the data-residency one of the input's hostname, or the self-managed
\* one of the input's scheme and hostname.
C18_Consistent ==
    (Parsed /\ Succeeded)
    => /\ \A n, m \in DOMAIN hostOut.host :
            /\ ~hostOut.host[n].nil
            /\ hostOut.host[n].Scheme = hostOut.host[m].Scheme
       /\ \/ hostOut.host = PublicEndpoints
          \/ hostOut.host = DataResidencyEndpoints(hostIn.hostname)
          \/ hostOut.host = SelfManagedEndpoints(ToLower(hostIn.scheme), hostIn.hostname)

\* a data-residency set and nothing else was returned
C18_Witness ==
    /\ hostIn = Compose(<< "f", "t", "p" >>, GheCom, [user |-> << "u", "@" >>, tail |-> <<>>])
    /\ hostOut = HostOk(DataResidencyEndpoints(GheCom))

\* the input carries more than its scheme and hostname: a port, a path, a
\* query, a fragment or user information
Decorated(in) ==
    /\ in.wellFormed
    /\ in.scheme # <<>>
    /\ in.hostname # <<>>
    /\ HasPrefix(in.text, in.scheme \o SchemeSep)
    /\ in.text # in.scheme \o SchemeSep \o in.hostname

\* C39: for a self-managed input that carries a port, a path, a query or
\* user information, the four URLs are built from the scheme and the bare
\* hostname alone: none keeps a port, user information, a query or a
\* fragment, and the endpoint set is the one the same scheme and hostname
\* resolve to without any of these.
C39_BareHostname ==
    (/\ Parsed
     /\ Decorated(hostIn)
     /\ ~EndsIn(hostIn.hostname, GithubCom)
     /\ ~EndsIn(hostIn.hostname, GheCom))
    => /\ Succeeded
       /\ \A n \in DOMAIN hostOut.host :
            /\ SameScheme(hostOut.host[n].Scheme, hostIn.scheme)
            /\ hostOut.host[n].Host = hostIn.hostname
            /\ hostOut.host[n].User = <<>>
            /\ hostOut.host[n].RawQuery = <<>>
            /\ hostOut.host[n].Fragment = <<>>
       /\ hostOut = parseAPIHost(hostIn.scheme \o SchemeSep \o hostIn.hostname)

\* a server given with a port resolved to the URLs of its bare hostname
C39_Witness ==
    /\ hostIn = Compose(HTTPS, << "g", "h", "e", "s", ".", "i", "o" >>, [user |-> <<>>, tail |-> << ":", "8", "0", "8", "0" >>])
    /\ hostOut.err = "none"
    /\ hostOut.host.graphqlURL = PlainURL(<< "h", "t", "t", "p", "s" >>, << "g", "h", "e", "s", ".", "i", "o" >>, << "/", "a", "p", "i", "/", "g", "r", "a", "p", "h", "q", "l" >>)

-----------------------------------------------------------------------------
(* HTTP server (http_server.go): RunHTTPServer, its listener goroutine and *)
(* the requests the server answers                                         *)

\* the most requests explored in one run of SpecServer
MaxServed == 1

\* http.StatusOK, http.StatusMethodNotAllowed
StatusOK == 200
StatusMethodNotAllowed == 405

\* defaultShutdownTimeout, in seconds
defaultShutdownTimeout == 10

defaultHTTPEndpoint == << "/", "m", "c", "p" >>
defaultHTTPHealthPath == << "/", "h", "e", "a", "l", "t", "h" >>

\* normalizePath
normalizePath(path, fallback) ==
    LET trimmed == TrimSpace(path)
        rooted == IF HasPrefix(trimmed, <<"/">>) THEN trimmed
                  ELSE <<"/">> \o trimmed
    IN  IF trimmed = <<>> THEN fallback
        ELSE IF Len(rooted) > 1 /\ HasSuffix(rooted, <<"/">>)
             THEN SubSeq(rooted, 1, Len(rooted) - 1)
        ELSE rooted

\* NewMCPServer accepting any host string
NewMCPServerAnyHost(cfg) ==
    IF cfg.toolsetsErr THEN "failed to enable toolsets" ELSE "none"

\* NewMCPServer: the error it returns, "none" with a server
NewMCPServer(cfg) ==
    IF parseAPIHost(cfg.Host.text).err # "none" THEN "failed to parse API host"
    ELSE IF cfg.toolsetsErr THEN "failed to enable toolsets"
    ELSE "none"

\* healthHandler
healthHandler(method) ==
    IF method # "GET" /\ method # "HEAD"
    THEN [status |-> StatusMethodNotAllowed, wwwAuthenticate |-> "",
          contentType |-> "", body |-> <<>>]
    ELSE [status |-> StatusOK, wwwAuthenticate |-> "",
          contentType |-> "text/plain; charset=utf-8",
          body |-> IF method = "HEAD" THEN <<>> ELSE << "o", "k", "\n" >>]

\* the registrations with every handler behind tokenMiddleware
registrationsAllProtected(healthPath, endpointPath) ==
    << [pattern |-> healthPath, handler |-> "health", protected |-> TRUE],
       [pattern |-> endpointPath, handler |-> "stream", protected |-> TRUE] >>
    \o IF ~HasSuffix(endpointPath, <<"/">>)
       THEN << [pattern |-> endpointPath \o <<"/">>, handler |-> "stream",
                protected |-> TRUE] >>
       ELSE << >>

\* the registrations with streamServer itself, not protectedHandler, on
\* endpointPath+"/"
registrationsBareSlash(healthPath, endpointPath) ==
    << [pattern |-> healthPath, handler |-> "health", protected |-> FALSE],
       [pattern |-> endpointPath, handler |-> "stream", protected |-> TRUE] >>
    \o IF ~HasSuffix(endpointPath, <<"/">>)
       THEN << [pattern |-> endpointPath \o <<"/">>, handler |-> "stream",
                protected |-> FALSE] >>
       ELSE << >>

\* mux.HandleFunc(healthPath, healthHandler), mux.Handle(endpointPath,
\* protectedHandler) and, without a trailing slash, endpointPath+"/": the
\* registrations in order
registrations(healthPath, endpointPath) ==
    << [pattern |-> healthPath, handler |-> "health", protected |-> FALSE],
       [pattern |-> endpointPath, handler |-> "stream", protected |-> TRUE] >>
    \o IF ~HasSuffix(endpointPath, <<"/">>)
       THEN << [pattern |-> endpointPath \o <<"/">>, handler |-> "stream",
                protected |-> TRUE] >>
       ELSE << >>

\* ServeMux refuses a pattern that is registered already (it panics)
Conflicting(regs) ==
    \E a, b \in 1..Len(regs) : a # b /\ regs[a].pattern = regs[b].pattern

\* a pattern matches a path: exactly, or as a subtree when it ends in "/"
Matches(pattern, path) ==
    \/ pattern = path
    \/ HasSuffix(pattern, <<"/">>) /\ HasPrefix(path, pattern)

\* ServeMux.Handler: the registration with the longest matching pattern, 0
\* when none matches (NotFoundHandler)
muxHandler(routes, path) ==
    LET hits == { k \in 1..Len(routes) : Matches(routes[k].pattern, path) }
    IN  IF hits = {} THEN 0
        ELSE CHOOSE k \in hits :
                \A m \in hits : Len(routes[m].pattern) <= Len(routes[k].pattern)

\* ServeMux redirects a path to path+"/" when only the latter is a
\* registered pattern
muxRedirects(routes, path) ==
    /\ ~HasSuffix(path, <<"/">>)
    /\ \A k \in 1..Len(routes) : routes[k].pattern # path
    /\ \E k \in 1..Len(routes) : routes[k].pattern = path \o <<"/">>

\* httpServer.Handler.ServeHTTP for one request, the stream server
\* answering with the given status: who answered, and what (of a redirect,
\* the status alone)
ServeHTTP(routes, request, streamStatus) ==
    LET k == muxHandler(routes, request.path)
        d == tokenMiddleware(request.header)
    IN  IF muxRedirects(routes, request.path)
        THEN [handler |-> "redirect", resp |-> [NoResponse EXCEPT !.status = 301]]
        ELSE IF k = 0
        THEN [handler |-> "notfound",
              resp |-> [status |-> 404, wwwAuthenticate |-> "",
                        contentType |-> "text/plain; charset=utf-8",
                        body |-> << "404 page not found", "\n" >>]]
        ELSE IF routes[k].protected /\ d.reject
        THEN [handler |-> "tokenMiddleware", resp |-> unauthorized(d.message)]
        ELSE IF routes[k].handler = "health"
        THEN [handler |-> "health", resp |-> healthHandler(request.method)]
        ELSE [handler |-> "stream",
              resp |-> [NoResponse EXCEPT !.status = streamStatus]]

\* the configurations explored
ServerHosts ==
    { EmptyHost,
      HostInput(GithubCom, <<>>, <<>>, TRUE),
      HostInput(HTTP \o SchemeSep \o GheCom, HTTP, GheCom, TRUE) }
LogFilePaths == { <<>>, << "l", "o", "g" >> }
EndpointPaths ==
    { <<>>, << " ", "m", "/", " " >>, << "m", "/", "/" >>,
      << "/", "h", "e", "a", "l", "t", "h" >> }
HealthPaths == { <<>>, << "/" >> }
ShutdownTimeouts == { 0, 5 }
Configs ==
    [Host : ServerHosts, toolsetsErr : BOOLEAN, LogFilePath : LogFilePaths,
     EndpointPath : EndpointPaths, HealthPath : HealthPaths,
     ShutdownTimeout : ShutdownTimeouts]

\* the requests explored
Methods == { "GET", "HEAD", "POST" }
RequestPaths ==
    { << "/", "h", "e", "a", "l", "t", "h" >>, << "/", "m", "c", "p" >>,
      << "/", "m", "c", "p", "/" >>, << "/", "m" >>, << "/", "m", "/" >>,
      << "/", "m", "/", "x" >>, << "/" >>, << "/", "x" >> }
ServerHeaders ==
    { NoHeader, Header(Bearer \o SP \o <<"t">>), Header(Basic \o SP \o <<"t">>) }

\* what ListenAndServe, Shutdown and OpenFile can return
ListenErrors == { "bind: address already in use", "accept: too many open files" }
ShutdownResults ==
    { "nil", "http.ErrServerClosed", "context.Canceled",
      "context.DeadlineExceeded", "close tcp: use of closed network connection" }

ServerInit ==
    /\ \E cfg \in Configs : run = RunStart(cfg)
    /\ listener = NoListener
    /\ errCh = <<>>
    /\ signalled = FALSE
    /\ served = NothingServed
    /\ TokenIdle
    /\ reqs = NoRequests
    /\ FactoryIdle
    /\ AgentIdle
    /\ HostIdle
    /\ FnIdle

\* the deferred calls with a file left open: no logFile.Close()
ReturnLeavingFile(r, result) ==
    [r EXCEPT !.pc = "returned", !.result = result]

\* the deferred calls of a return: stop(), and logFile.Close() when a file
\* was opened
Return(r, result) ==
    [r EXCEPT !.pc = "returned",
              !.result = result,
              !.logFile = IF @ = "open" THEN "closed" ELSE @]

\* a return of fmt.Errorf(msg+": %w", err): the result wraps err
Fail(r, msg, err) == [Return(r, msg) EXCEPT !.cause = err]

\* the defaults, the normalized paths and signal.NotifyContext
Configure ==
    /\ run.pc = "start"
    /\ run' = [run EXCEPT
                  !.pc = "create",
                  !.endpointPath = normalizePath(run.cfg.EndpointPath, defaultHTTPEndpoint),
                  !.healthPath = normalizePath(run.cfg.HealthPath, defaultHTTPHealthPath),
                  !.shutdownTimeout = IF run.cfg.ShutdownTimeout <= 0
                                      THEN defaultShutdownTimeout
                                      ELSE run.cfg.ShutdownTimeout]
    /\ UNCHANGED <<listener, errCh, signalled, served>>
    /\ UNCHANGED <<tokenVars, mwVars, factoryVars, agentVars, hostVars, fnVars>>

\* ghServer, err := NewMCPServer(...); if err != nil { return ... }
CreateServer ==
    /\ run.pc = "create"
    /\ run' = IF NewMCPServer(run.cfg) # "none"
              THEN Fail(run, "failed to create MCP server", NewMCPServer(run.cfg))
              ELSE [run EXCEPT !.pc = "log"]
    /\ UNCHANGED <<listener, errCh, signalled, served>>
    /\ UNCHANGED <<tokenVars, mwVars, factoryVars, agentVars, hostVars, fnVars>>

\* the log output: os.OpenFile when cfg.LogFilePath is not blank, which may
\* fail, os.Stderr otherwise
OpenLog ==
    /\ run.pc = "log"
    /\ \/ /\ TrimSpace(run.cfg.LogFilePath) # <<>>
          /\ \/ run' = Fail(run, "failed to open log file", "open: permission denied")
             \/ run' = [run EXCEPT !.pc = "mount", !.logFile = "open"]
       \/ /\ TrimSpace(run.cfg.LogFilePath) = <<>>
          /\ run' = [run EXCEPT !.pc = "mount"]
    /\ UNCHANGED <<listener, errCh, signalled, served>>
    /\ UNCHANGED <<tokenVars, mwVars, factoryVars, agentVars, hostVars, fnVars>>

\* the HTTP server, the stream server and the registrations of the mux;
\* a registration the mux refuses panics, and the deferred calls run
Mount ==
    /\ run.pc = "mount"
    /\ run' =
        LET regs == registrations(run.healthPath, run.endpointPath)
        IN  IF Conflicting(regs)
            THEN [Return(run, "panic") EXCEPT !.pc = "panicked"]
            ELSE [run EXCEPT !.pc = "spawn", !.routes = regs]
    /\ UNCHANGED <<listener, errCh, signalled, served>>
    /\ UNCHANGED <<tokenVars, mwVars, factoryVars, agentVars, hostVars, fnVars>>

\* errCh := make(chan error, 1); go func() { ... }()
Spawn ==
    /\ run.pc = "spawn"
    /\ run' = [run EXCEPT !.pc = "select"]
    /\ listener' = [pc |-> "starting", serveErr |-> "nil", sent |-> <<>>]
    /\ errCh' = <<>>
    /\ UNCHANGED <<signalled, served>>
    /\ UNCHANGED <<tokenVars, mwVars, factoryVars, agentVars, hostVars, fnVars>>

\* SIGINT or SIGTERM arrives while the signal context is registered
Signal ==
    /\ run.pc \in { "create", "log", "mount", "spawn", "select", "shutdown",
                    "shutting", "drain" }
    /\ ~signalled
    /\ signalled' = TRUE
    /\ UNCHANGED <<run, listener, errCh, served>>
    /\ UNCHANGED <<tokenVars, mwVars, factoryVars, agentVars, hostVars, fnVars>>

\* select: case <-ctx.Done()
SelectDone ==
    /\ run.pc = "select"
    /\ signalled
    /\ run' = [run EXCEPT !.pc = "shutdown", !.selected = "ctx.Done"]
    /\ UNCHANGED <<listener, errCh, signalled, served>>
    /\ UNCHANGED <<tokenVars, mwVars, factoryVars, agentVars, hostVars, fnVars>>

\* select: case serveErr := <-errCh, then on to the shutdown
SelectErrFallsThrough ==
    /\ run.pc = "select"
    /\ errCh # <<>>
    /\ run' = [run EXCEPT !.pc = "shutdown", !.selected = "errCh",
                          !.serveErr = Head(errCh)]
    /\ errCh' = Tail(errCh)
    /\ UNCHANGED <<listener, signalled, served>>
    /\ UNCHANGED <<tokenVars, mwVars, factoryVars, agentVars, hostVars, fnVars>>

\* select: case serveErr := <-errCh
SelectErr ==
    /\ run.pc = "select"
    /\ errCh # <<>>
    /\ run' = LET r == [run EXCEPT !.selected = "errCh", !.serveErr = Head(errCh)]
              IN  IF Head(errCh) # "nil"
                  THEN Fail(r, "error running HTTP server", Head(errCh))
                  ELSE Return(r, "ok")
    /\ errCh' = Tail(errCh)
    /\ UNCHANGED <<listener, signalled, served>>
    /\ UNCHANGED <<tokenVars, mwVars, factoryVars, agentVars, hostVars, fnVars>>

\* every shutdown error taken for benign
benignShutdownErrAny(shutdownErr) == TRUE

\* the shutdown errors RunHTTPServer goes on after: nil, and those that are
\* http.ErrServerClosed or context.Canceled
benignShutdownErr(shutdownErr) ==
    \/ shutdownErr = "nil"
    \/ shutdownErr = "http.ErrServerClosed"
    \/ shutdownErr = "context.Canceled"

\* shutdownCtx with the shutdown timeout, and the call of
\* streamServer.Shutdown(shutdownCtx): the server stops accepting
Shutdown ==
    /\ run.pc = "shutdown"
    /\ run' = [run EXCEPT !.pc = "shutting", !.inShutdown = TRUE,
                          !.shutdowns = @ + 1,
                          !.deadline = run.shutdownTimeout]
    /\ UNCHANGED <<listener, errCh, signalled, served>>
    /\ UNCHANGED <<tokenVars, mwVars, factoryVars, agentVars, hostVars, fnVars>>

\* streamServer.Shutdown returns: nil once no connection is active, the
\* error of shutdownCtx when its deadline passes first, or another error;
\* it closes no active connection
ShutdownReturns ==
    /\ run.pc = "shutting"
    /\ \E res \in ShutdownResults :
        /\ res = "nil" => ~served.active
        /\ res = "context.DeadlineExceeded" => served.active
        /\ run' = LET r == [run EXCEPT !.shutdownErr = res]
                  IN  IF ~benignShutdownErr(res)
                      THEN Fail(r, "failed to shutdown HTTP server", res)
                      ELSE [r EXCEPT !.pc = "drain"]
    /\ UNCHANGED <<listener, errCh, signalled, served>>
    /\ UNCHANGED <<tokenVars, mwVars, factoryVars, agentVars, hostVars, fnVars>>

\* the return after the shutdown without the receive from errCh
DrainSkipped ==
    /\ run.pc = "drain"
    /\ run' = Return(run, "ok")
    /\ UNCHANGED <<listener, errCh, signalled, served>>
    /\ UNCHANGED <<tokenVars, mwVars, factoryVars, agentVars, hostVars, fnVars>>

\* the receive after the shutdown with its value dropped
DrainTolerant ==
    /\ run.pc = "drain"
    /\ errCh # <<>>
    /\ run' = Return([run EXCEPT !.serveErr = Head(errCh)], "ok")
    /\ errCh' = Tail(errCh)
    /\ UNCHANGED <<listener, signalled, served>>
    /\ UNCHANGED <<tokenVars, mwVars, factoryVars, agentVars, hostVars, fnVars>>

\* serveErr := <-errCh after the shutdown
Drain ==
    /\ run.pc = "drain"
    /\ errCh # <<>>
    /\ run' = LET r == [run EXCEPT !.serveErr = Head(errCh)]
              IN  IF Head(errCh) # "nil" /\ Head(errCh) # "http.ErrServerClosed"
                  THEN Fail(r, "error shutting down HTTP server", Head(errCh))
                  ELSE Return(r, "ok")
    /\ errCh' = Tail(errCh)
    /\ UNCHANGED <<listener, signalled, served>>
    /\ UNCHANGED <<tokenVars, mwVars, factoryVars, agentVars, hostVars, fnVars>>

\* httpServer.ListenAndServe() starts: it returns at once when the server is
\* shut down or the address cannot be bound, and serves otherwise
Listen ==
    /\ listener.pc = "starting"
    /\ \/ /\ run.inShutdown
          /\ listener' = [listener EXCEPT !.pc = "returned",
                                          !.serveErr = "http.ErrServerClosed"]
       \/ /\ ~run.inShutdown
          /\ \/ listener' = [listener EXCEPT !.pc = "serving"]
             \/ \E e \in ListenErrors :
                    listener' = [listener EXCEPT !.pc = "returned", !.serveErr = e]
    /\ UNCHANGED <<run, errCh, signalled, served>>
    /\ UNCHANGED <<tokenVars, mwVars, factoryVars, agentVars, hostVars, fnVars>>

\* ListenAndServe returns while serving: the server was shut down, or
\* accepting failed
ServeReturns ==
    /\ listener.pc = "serving"
    /\ \/ /\ run.inShutdown
          /\ listener' = [listener EXCEPT !.pc = "returned",
                                          !.serveErr = "http.ErrServerClosed"]
       \/ /\ ~run.inShutdown
          /\ \E e \in ListenErrors :
                listener' = [listener EXCEPT !.pc = "returned", !.serveErr = e]
    /\ UNCHANGED <<run, errCh, signalled, served>>
    /\ UNCHANGED <<tokenVars, mwVars, factoryVars, agentVars, hostVars, fnVars>>

\* the goroutine without its return after errCh <- serveErr: it goes on to
\* errCh <- nil
SendNoReturn ==
    /\ listener.pc = "returned"
    /\ Len(errCh) < 1
    /\ LET v == IF listener.serveErr # "nil"
                   /\ listener.serveErr # "http.ErrServerClosed"
                THEN listener.serveErr ELSE "nil"
       IN  /\ errCh' = Append(errCh, v)
           /\ listener' = IF v # "nil"
                          THEN [listener EXCEPT !.serveErr = "nil",
                                                !.sent = Append(@, v)]
                          ELSE [listener EXCEPT !.pc = "exited",
                                                !.sent = Append(@, v)]
    /\ UNCHANGED <<run, signalled, served>>
    /\ UNCHANGED <<tokenVars, mwVars, factoryVars, agentVars, hostVars, fnVars>>

\* the goroutine without errCh <- nil: it sends errors only
SendErrorsOnly ==
    /\ listener.pc = "returned"
    /\ Len(errCh) < 1
    /\ listener.serveErr # "nil"
    /\ listener.serveErr # "http.ErrServerClosed"
    /\ errCh' = Append(errCh, listener.serveErr)
    /\ listener' = [listener EXCEPT !.pc = "exited",
                                    !.sent = Append(@, listener.serveErr)]
    /\ UNCHANGED <<run, signalled, served>>
    /\ UNCHANGED <<tokenVars, mwVars, factoryVars, agentVars, hostVars, fnVars>>

\* errCh <- serveErr for an error other than ErrServerClosed, errCh <- nil
\* otherwise; the send waits while the buffer of one is full
Send ==
    /\ listener.pc = "returned"
    /\ Len(errCh) < 1
    /\ LET v == IF listener.serveErr # "nil"
                   /\ listener.serveErr # "http.ErrServerClosed"
                THEN listener.serveErr ELSE "nil"
       IN  /\ errCh' = Append(errCh, v)
           /\ listener' = [listener EXCEPT !.pc = "exited", !.sent = Append(@, v)]
    /\ UNCHANGED <<run, signalled, served>>
    /\ UNCHANGED <<tokenVars, mwVars, factoryVars, agentVars, hostVars, fnVars>>

\* a connection sends a request and the server routes it to its handler; the
\* connection is active until the response is complete
ServeRequest ==
    /\ listener.pc = "serving"
    /\ ~run.inShutdown
    /\ ~served.active
    /\ served.count < MaxServed
    /\ \E method \in Methods, path \in RequestPaths, h \in ServerHeaders,
          st \in HandlerStatuses :
        LET request == [method |-> method, path |-> path, header |-> h]
            answer == ServeHTTP(run.routes, request, st)
        IN  served' = [count |-> served.count + 1, request |-> request,
                       handler |-> answer.handler, active |-> TRUE,
                       resp |-> answer.resp]
    /\ UNCHANGED <<run, listener, errCh, signalled>>
    /\ UNCHANGED <<tokenVars, mwVars, factoryVars, agentVars, hostVars, fnVars>>

\* the response is complete and the connection idle: before a shutdown, or
\* while one waits
Complete ==
    /\ served.active
    /\ served' = [served EXCEPT !.active = FALSE]
    /\ UNCHANGED <<run, listener, errCh, signalled>>
    /\ UNCHANGED <<tokenVars, mwVars, factoryVars, agentVars, hostVars, fnVars>>

ServerNext ==
    \/ Configure
    \/ CreateServer
    \/ OpenLog
    \/ Mount
    \/ Spawn
    \/ Signal
    \/ SelectDone
    \/ SelectErr
    \/ Shutdown
    \/ ShutdownReturns
    \/ Drain
    \/ Listen
    \/ ServeReturns
    \/ Send
    \/ ServeRequest
    \/ Complete

SpecServer == ServerInit /\ [][ServerNext]_vars

\* what the claims say of a configuration: NewMCPServer cannot be built
\* from it, because the host has no scheme, or is a data-residency host on
\* http, or the toolsets are refused
ConfigRejected(cfg) ==
    \/ cfg.toolsetsErr
    \/ /\ cfg.Host.text # <<>>
       /\ \/ ~ExplicitScheme(cfg.Host.text)
          \/ /\ EndsIn(cfg.Host.hostname, GheCom)
             /\ SameScheme(cfg.Host.scheme, HTTP)

\* C19: when the configuration is rejected, RunHTTPServer returns the error
\* of NewMCPServer and has started no listener goroutine, made no channel
\* and mounted no route: no request is served in such an execution.
C19_RejectedNeverServes ==
    ConfigRejected(run.cfg) =>
        /\ listener = NoListener
        /\ errCh = <<>>
        /\ served = NothingServed
        /\ run.routes = <<>>
        /\ run.pc \in { "start", "create", "returned" }
        /\ run.pc = "returned" => run.result = "failed to create MCP server"

\* a host without a scheme was refused after a signal had arrived, and
\* nothing was started
C19_Witness ==
    /\ run.cfg.Host.text = GithubCom
    /\ ~run.cfg.toolsetsErr
    /\ signalled
    /\ run.pc = "returned"
    /\ run.result = "failed to create MCP server"
    /\ listener.pc = "none"

\* C20: a request on the health path is answered 200 with Content-Type
\* text/plain and the body "ok\n" for GET, 200 with the same header and no
\* body for HEAD, and 405 with no body for any other method, whether or not
\* it carries an Authorization header.
C20_Health ==
    (served.count > 0 /\ served.request.path = run.healthPath) =>
        /\ served.resp.wwwAuthenticate = ""
        /\ served.request.method = "GET" =>
              /\ served.resp.status = 200
              /\ served.resp.contentType = "text/plain; charset=utf-8"
              /\ served.resp.body = << "o", "k", "\n" >>
        /\ served.request.method = "HEAD" =>
              /\ served.resp.status = 200
              /\ served.resp.contentType = "text/plain; charset=utf-8"
              /\ served.resp.body = <<>>
        /\ served.request.method \notin { "GET", "HEAD" } =>
              /\ served.resp.status = 405
              /\ served.resp.body = <<>>

\* a HEAD request without an Authorization header was answered on the
\* default health path
C20_Witness ==
    /\ served.count > 0
    /\ run.healthPath = << "/", "h", "e", "a", "l", "t", "h" >>
    /\ served.request = [method |-> "HEAD", path |-> << "/", "h", "e", "a", "l", "t", "h" >>, header |-> NoHeader]
    /\ served.resp.status = 200
    /\ served.resp.body = <<>>

\* the headers that pass the bearer-token check, among those the requests
\* of SpecServer carry
BearerHeaders == { h \in ServerHeaders : WellFormedAuth(h) }

\* the routes hold this pattern for the protocol handler behind
\* tokenMiddleware
MountedBehindToken(pattern) ==
    \E k \in 1..Len(run.routes) :
        /\ run.routes[k].pattern = pattern
        /\ run.routes[k].handler = "stream"
        /\ run.routes[k].protected

\* C21: once the routes are mounted, the protocol handler is mounted behind
\* tokenMiddleware at the normalized request path and, when that path has
\* no trailing slash, at path+"/" too; a request on either route reaches the
\* protocol handler when its Authorization header is a well-formed bearer
\* header and is answered 401 by the middleware otherwise, and no request
\* at all reaches the protocol handler without such a header.
C21_ProtocolBehindToken ==
    /\ run.routes # <<>> =>
          /\ MountedBehindToken(run.endpointPath)
          /\ ~EndsIn(run.endpointPath, <<"/">>) =>
                MountedBehindToken(run.endpointPath \o <<"/">>)
    /\ served.handler = "stream" => served.request.header \in BearerHeaders
    /\ ( /\ served.count > 0
         /\ \/ served.request.path = run.endpointPath
            \/ /\ ~EndsIn(run.endpointPath, <<"/">>)
               /\ served.request.path = run.endpointPath \o <<"/">> )
       => IF served.request.header \in BearerHeaders
          THEN served.handler = "stream"
          ELSE /\ served.handler = "tokenMiddleware"
               /\ served.resp.status = 401

\* a request without an Authorization header on the default request path
\* with a trailing slash was answered 401 by the middleware
C21_Witness ==
    /\ served.count > 0
    /\ run.endpointPath = << "/", "m", "c", "p" >>
    /\ served.request.path = << "/", "m", "c", "p", "/" >>
    /\ served.request.header = NoHeader
    /\ served.handler = "tokenMiddleware"
    /\ served.resp.status = 401

\* what the claims call the shutdown timeout in force, in seconds
ConfiguredTimeout(cfg) ==
    IF cfg.ShutdownTimeout > 0 THEN cfg.ShutdownTimeout ELSE 10

\* the shutdown results the claims call tolerated
ToleratedShutdown == { "nil", "http.ErrServerClosed", "context.Canceled" }

\* C23: when the select takes the value of the error channel, RunHTTPServer
\* has returned without calling the shutdown: with a failure that wraps the
\* listener's error when the value is not nil, with success when it is nil.
C23_ErrorFirst ==
    run.selected = "errCh" =>
        /\ run.pc = "returned"
        /\ run.shutdowns = 0
        /\ ~run.inShutdown
        /\ run.shutdownErr = "unset"
        /\ listener.sent = << run.serveErr >>
        /\ IF run.serveErr = "nil"
           THEN run.result = "ok" /\ run.cause = "none"
           ELSE /\ run.result = "error running HTTP server"
                /\ run.cause = run.serveErr

\* the listener could not bind, a signal had arrived as well, and the select
\* took the error
C23_Witness ==
    /\ run.selected = "errCh"
    /\ signalled
    /\ run.pc = "returned"
    /\ run.result = "error running HTTP server"
    /\ run.cause = "bind: address already in use"

\* C24: when the select takes the signal, the shutdown is called once, with
\* the configured shutdown timeout (10 seconds for a configured value that
\* is not positive); after a result of nil, "server closed" or "context
\* canceled" RunHTTPServer goes on, and after any other result, the deadline
\* exceeded among them, it returns a failure that wraps it.
C24_SignalFirst ==
    run.selected = "ctx.Done" =>
        /\ run.shutdowns <= 1
        /\ run.pc \in { "shutting", "drain", "returned" } =>
              /\ run.shutdowns = 1
              /\ run.deadline = ConfiguredTimeout(run.cfg)
        /\ run.pc \in { "drain", "returned" } => run.shutdownErr # "unset"
        /\ run.shutdownErr # "unset" =>
              IF run.shutdownErr \in ToleratedShutdown
              THEN /\ run.pc \in { "drain", "returned" }
                   /\ run.result # "failed to shutdown HTTP server"
              ELSE /\ run.pc = "returned"
                   /\ run.result = "failed to shutdown HTTP server"
                   /\ run.cause = run.shutdownErr

\* with no timeout configured, the shutdown ran into its deadline of 10
\* seconds and RunHTTPServer returned the failure
C24_Witness ==
    /\ run.selected = "ctx.Done"
    /\ run.cfg.ShutdownTimeout = 0
    /\ run.deadline = 10
    /\ run.shutdowns = 1
    /\ run.shutdownErr = "context.DeadlineExceeded"
    /\ run.pc = "returned"
    /\ run.result = "failed to shutdown HTTP server"

\* C25: a return on the signal path after a tolerated shutdown comes after
\* one more receive from the error channel, of the value the listener
\* goroutine sent: a failure that wraps it when it is an error other than
\* "server closed", success otherwise; no success on the signal path comes
\* without that value.
C25_DrainAfterShutdown ==
    (run.pc = "returned" /\ run.selected = "ctx.Done") =>
        /\ run.shutdownErr \in ToleratedShutdown =>
              /\ run.serveErr # "unset"
              /\ listener.pc = "exited"
              /\ listener.sent = << run.serveErr >>
              /\ errCh = <<>>
              /\ IF run.serveErr \notin { "nil", "http.ErrServerClosed" }
                 THEN /\ run.result = "error shutting down HTTP server"
                      /\ run.cause = run.serveErr
                 ELSE run.result = "ok"
        /\ run.result = "ok" =>
              /\ run.shutdownErr \in ToleratedShutdown
              /\ run.serveErr # "unset"

\* the listener failed while the signal was taken: the shutdown was
\* tolerated and the receive after it found the listener's error
C25_Witness ==
    /\ run.pc = "returned"
    /\ run.selected = "ctx.Done"
    /\ run.shutdownErr = "nil"
    /\ run.serveErr = "accept: too many open files"
    /\ run.result = "error shutting down HTTP server"

\* C27: the listener goroutine sends one value on the error channel in its
\* lifetime, and whenever it is at its send the buffer of one has room, so
\* the send does not wait: also when RunHTTPServer has returned without a
\* receive, or has received already.
C27_OneSend ==
    /\ Len(listener.sent) <= 1
    /\ Len(errCh) <= 1
    /\ listener.pc = "exited" => Len(listener.sent) = 1
    /\ listener.pc = "returned" => Len(errCh) < 1

\* RunHTTPServer returned on a failed shutdown without a receive, and the
\* goroutine has sent its value and ended
C27_Witness ==
    /\ run.pc = "returned"
    /\ run.result = "failed to shutdown HTTP server"
    /\ run.serveErr = "unset"
    /\ listener.pc = "exited"
    /\ errCh = << "nil" >>

\* C28: requests in flight when the shutdown begins may complete until the
\* shutdown timeout has passed, and once it has passed the server closes
\* the connections that remain before RunHTTPServer returns: no connection
\* is active when RunHTTPServer has returned from a shutdown that ran into
\* its deadline.
C28_AsStated ==
    (run.pc = "returned" /\ run.shutdownErr = "context.DeadlineExceeded")
    => ~served.active

\* the results of RunHTTPServer
Results ==
    { "ok", "failed to create MCP server", "failed to open log file",
      "error running HTTP server", "failed to shutdown HTTP server",
      "error shutting down HTTP server" }

\* C29: a log file that RunHTTPServer opened is closed when it has returned,
\* on every path, and not before; RunHTTPServer has a result exactly when it
\* has returned, success or one failure, and the result stays.
C29_LogClosedOneResult ==
    /\ [](/\ run.pc = "returned" => run.logFile # "open"
          /\ run.logFile = "closed" => run.pc \in { "returned", "panicked" }
          /\ run.pc = "returned" => run.result \in Results
          /\ run.pc \notin { "returned", "panicked" } => run.result = "running")
    /\ [][run.pc = "returned" => run' = run]_vars

\* RunHTTPServer returned success after a shutdown with its log file closed
C29_Witness ==
    /\ run.cfg.LogFilePath # <<>>
    /\ run.pc = "returned"
    /\ run.logFile = "closed"
    /\ run.selected = "ctx.Done"
    /\ run.result = "ok"

\* ListenAndServe has returned an error other than "server closed"
ListenerFailed ==
    /\ listener.pc \in { "returned", "exited" }
    /\ listener.serveErr \notin { "nil", "http.ErrServerClosed" }

\* C35: when the listener has failed with an error other than "server
\* closed", RunHTTPServer returns a failure whichever case its select took:
\* the failure of the run on the error case, and on the signal case the
\* failure of the shutdown or, after a tolerated shutdown, the failure that
\* wraps the listener's error.
C35_ListenerFailureReported ==
    (run.pc = "returned" /\ ListenerFailed) =>
        /\ run.result \in Results \ { "ok" }
        /\ run.selected = "errCh" =>
              /\ run.result = "error running HTTP server"
              /\ run.cause = listener.serveErr
        /\ run.selected = "ctx.Done" =>
              IF run.shutdownErr \in ToleratedShutdown
              THEN /\ run.result = "error shutting down HTTP server"
                   /\ run.cause = listener.serveErr
              ELSE run.result = "failed to shutdown HTTP server"

\* the address could not be bound and a signal had arrived: the select took
\* the signal, the shutdown answered "server closed", and RunHTTPServer
\* returned the listener's error
C35_Witness ==
    /\ run.pc = "returned"
    /\ signalled
    /\ run.selected = "ctx.Done"
    /\ listener.serveErr = "bind: address already in use"
    /\ run.shutdownErr = "http.ErrServerClosed"
    /\ run.result = "error shutting down HTTP server"
    /\ run.cause = "bind: address already in use"

\* C37: for every pair of configured protocol path and health path, pairs
\* that normalize to one path among them, the registration of the routes
\* completes without a panic; a request to the health path is answered by
\* the health handler and a request to the protocol path by the protocol
\* handler behind the token check.
C37_AsStated ==
    /\ run.pc # "panicked"
    /\ (served.count > 0 /\ served.request.path = run.healthPath)
          => served.handler = "health"
    /\ (served.count > 0 /\ served.request.path = run.endpointPath)
          => served.handler \in { "tokenMiddleware", "stream" }

-----------------------------------------------------------------------------
(* SpecServerLive: RunHTTPServer under the scheduling of its goroutines    *)

\* the configurations of the runs checked for termination
LiveConfigs ==
    { cfg \in Configs :
        /\ cfg.Host = EmptyHost
        /\ ~cfg.toolsetsErr
        /\ cfg.EndpointPath = <<>>
        /\ cfg.HealthPath = <<>>
        /\ cfg.ShutdownTimeout = 0 }

LiveInit ==
    /\ \E cfg \in LiveConfigs : run = RunStart(cfg)
    /\ listener = NoListener
    /\ errCh = <<>>
    /\ signalled = FALSE
    /\ served = NothingServed
    /\ TokenIdle
    /\ reqs = NoRequests
    /\ FactoryIdle
    /\ AgentIdle
    /\ HostIdle
    /\ FnIdle

\* both goroutines are scheduled: the select proceeds when a case is ready,
\* a receive or send proceeds when the channel allows it; the call of
\* streamServer.Shutdown returns; and ListenAndServe returns once the
\* server is shut down
ServerFairness ==
    /\ WF_vars(SelectDone \/ SelectErr)
    /\ WF_vars(Shutdown)
    /\ WF_vars(ShutdownReturns)
    /\ WF_vars(Drain)
    /\ WF_vars(Listen)
    /\ WF_vars(ServeReturns /\ run.inShutdown)
    /\ WF_vars(Send)

SpecServerLive == LiveInit /\ [][ServerNext]_vars /\ ServerFairness

\* RunHTTPServer waits in its select with a signal delivered or the
\* listener stopped, or is in its shutdown sequence
MustFinish ==
    \/ run.pc = "select" /\ (signalled \/ listener.pc \in { "returned", "exited" })
    \/ run.pc \in { "shutdown", "shutting", "drain" }

\* C26: once a signal is delivered or the listener has stopped, and given
\* that the shutdown call returns, RunHTTPServer eventually returns; the
\* receive after the shutdown does not wait forever, because the listener
\* goroutine eventually sends its value.
C26_EventuallyReturns ==
    /\ MustFinish ~> run.pc = "returned"
    /\ run.pc = "drain" ~> (listener.pc = "exited" /\ run.pc = "returned")

\* after a signal and a clean shutdown the goroutine sent nil and
\* RunHTTPServer received it and returned
C26_Witness ==
    /\ signalled
    /\ run.pc = "returned"
    /\ run.shutdownErr = "nil"
    /\ listener.pc = "exited"
    /\ listener.sent = << "nil" >>
    /\ run.serveErr = "nil"

-----------------------------------------------------------------------------
(* SpecPath: normalizePath applied to bounded paths                        *)

\* the longest path given to normalizePath
MaxPathLen == 4

\* the characters of the paths, and the paths
PathChars == { "/", "a", " " }
PathInputs == UNION { [1..n -> PathChars] : n \in 0..MaxPathLen }
Fallbacks == { defaultHTTPEndpoint, defaultHTTPHealthPath }

PathInit ==
    /\ \E path \in PathInputs, fallback \in Fallbacks :
          norm = [pc |-> "call", path |-> path, fallback |-> fallback,
                  out |-> <<>>, reapplied |-> FALSE, again |-> <<>>]
    /\ tools = NoToolsets
    /\ ctxs = NoContexts
    /\ TokenIdle
    /\ reqs = NoRequests
    /\ FactoryIdle
    /\ AgentIdle
    /\ HostIdle
    /\ ServerIdle

\* endpointPath := normalizePath(cfg.EndpointPath, defaultHTTPEndpoint), and
\* the same for the health path
NormalizePath ==
    /\ norm.pc = "call"
    /\ norm' = [norm EXCEPT !.pc = "done",
                            !.out = normalizePath(norm.path, norm.fallback)]
    /\ UNCHANGED <<tools, ctxs, tokenVars, mwVars, factoryVars, agentVars, hostVars, srvVars>>

\* normalizePath applied to a path it returned, with the same fallback
NormalizeAgain ==
    /\ norm.pc = "done"
    /\ ~norm.reapplied
    /\ norm' = [norm EXCEPT !.reapplied = TRUE,
                            !.again = normalizePath(norm.out, norm.fallback)]
    /\ UNCHANGED <<tools, ctxs, tokenVars, mwVars, factoryVars, agentVars, hostVars, srvVars>>

PathNext == NormalizePath \/ NormalizeAgain

SpecPath == PathInit /\ [][PathNext]_vars

\* C22: normalizePath returns the fallback for an empty or whitespace-only
\* path; for any other path it returns a path that begins with "/" and does
\* not end with "/" unless it is exactly "/".
C22_AsStated ==
    norm.pc = "done" =>
        IF ~NonBlank(norm.path)
        THEN norm.out = norm.fallback
        ELSE /\ Len(norm.out) > 0
             /\ norm.out[1] = "/"
             /\ norm.out[Len(norm.out)] = "/" => norm.out = << "/" >>

\* C38: normalizePath is idempotent: applied to its own result with the
\* same fallback it returns that result.
C38_AsStated ==
    norm.reapplied => norm.again = norm.out

-----------------------------------------------------------------------------
(* SpecToolsets: the toolsets NewMCPServer hands to tsg.EnableToolsets     *)

\* the longest list of toolsets configured
MaxToolsets == 3

\* the names configured, and the lists
ToolsetNames == { "all", "repos", "issues" }
ToolsetLists == UNION { [1..n -> ToolsetNames] : n \in 0..MaxToolsets }

\* enabledToolsets: cfg.EnabledToolsets, without "all" when
\* cfg.DynamicToolsets is set
enabledToolsets(EnabledToolsets, DynamicToolsets) ==
    IF DynamicToolsets
    THEN SelectSeq(EnabledToolsets, LAMBDA toolset : toolset # "all")
    ELSE EnabledToolsets

ToolsetsInit ==
    /\ \E list \in ToolsetLists, dynamic \in BOOLEAN :
          tools = [pc |-> "filter", EnabledToolsets |-> list,
                   DynamicToolsets |-> dynamic, enabledToolsets |-> <<>>]
    /\ norm = NoNormalize
    /\ ctxs = NoContexts
    /\ TokenIdle
    /\ reqs = NoRequests
    /\ FactoryIdle
    /\ AgentIdle
    /\ HostIdle
    /\ ServerIdle

\* err = tsg.EnableToolsets(enabledToolsets): the names it is called with
EnableToolsets ==
    /\ tools.pc = "filter"
    /\ tools' = [tools EXCEPT
                    !.pc = "enabled",
                    !.enabledToolsets =
                        enabledToolsets(tools.EnabledToolsets, tools.DynamicToolsets)]
    /\ UNCHANGED <<norm, ctxs, tokenVars, mwVars, factoryVars, agentVars, hostVars, srvVars>>

ToolsetsNext == EnableToolsets

SpecToolsets == ToolsetsInit /\ [][ToolsetsNext]_vars

\* the names in a list
Names(list) == { list[k] : k \in 1..Len(list) }

\* C30: when the configured toolsets contain "all", "all" is among the names
\* EnableToolsets is called with, which is what enables every available
\* toolset, whatever the rest of the configuration, dynamic toolsets
\* included.
C30_AsStated ==
    (tools.pc = "enabled" /\ "all" \in Names(tools.EnabledToolsets))
    => "all" \in Names(tools.enabledToolsets)

=============================================================================
